---- MODULE Spec2Model ----
(***************************************************************************)
(* A model of the diff / match / patch library.                            *)
(*                                                                         *)
(* Strings are sequences of UTF-16 code units (naturals).  A diff tuple    *)
(* [Operation, string] is a pair <<op, text>>; a script is a sequence of   *)
(* such pairs.  Every loop of the source is a RECURSIVE operator carrying  *)
(* the loop's local variables.                                             *)
(***************************************************************************)
EXTENDS Integers, Sequences, FiniteSets, TLC

(***************************************************************************)
(* Operation enum.                                                         *)
(***************************************************************************)
DIFF_DELETE == "DIFF_DELETE"
DIFF_INSERT == "DIFF_INSERT"
DIFF_EQUAL == "DIFF_EQUAL"

(***************************************************************************)
(* Engine configuration (instance fields set by the constructors).         *)
(*   timeout          Diff.timeout: > 0 means a finite deadline            *)
(*   editCost         Diff.editCost                                        *)
(*   threshold        Match.threshold, as the fraction threshNum/ScoreDen  *)
(*   distance         Match.distance                                       *)
(*   maxBits          Match.maxBits                                        *)
(*   deleteThreshold  Patch.deleteThreshold, as delThreshNum/ScoreDen      *)
(*   margin           Patch.margin                                         *)
(***************************************************************************)
VARIABLES timeout, editCost, threshNum, distance, maxBits, delThreshNum, margin

config == <<timeout, editCost, threshNum, distance, maxBits, delThreshNum, margin>>

(***************************************************************************)
(* State of a call of the Diff class.                                      *)
(*   pc        which operation ran last ("start" before any, "threw" when  *)
(*             the call left with an exception)                            *)
(*   srcText   the text1 argument                                          *)
(*   dstText   the text2 argument                                          *)
(*   useLines  the checklines argument                                     *)
(*   clock     the deadline argument, as the number of clock reads that    *)
(*             still fall before it                                        *)
(*   clockLeft the clock reads left when the call returned                 *)
(*   inScript  the diff script passed as an argument                       *)
(*   script    the diff script returned (or left in place) by the call     *)
(*   deltaText the delta string returned by toDelta                        *)
(*   thrown    the error thrown by the last call ("" when it returned)     *)
(***************************************************************************)
VARIABLES pc, srcText, dstText, useLines, clock, clockLeft, inScript, script,
          deltaText, thrown

diffVars == <<pc, srcText, dstText, useLines, clock, clockLeft, inScript, script,
              deltaText, thrown>>

(***************************************************************************)
(* State of a call of the Patch class.                                     *)
(*   inPatches   the hunk list the caller passes, a sequence of PatchObj   *)
(*               values; in a call of apply the caller's PatchObj number i *)
(*               is the object heap[i]                                     *)
(*   patchText   the string returned by toText                             *)
(*   outPatches  the hunk list returned by fromText                        *)
(*   heap        the PatchObj objects alive during a call of apply, by     *)
(*               reference: a list of hunks is a sequence of indices of    *)
(*               heap                                                      *)
(*   work        the local list patches of apply (references into heap)    *)
(*   applyInput  the text argument of apply                                *)
(*   applyText   the local text of apply, padded and patched so far        *)
(*   applyX      the loop counter x of apply                               *)
(*   applyDelta  the local delta of apply                                  *)
(*   results     the local results of apply                                *)
(***************************************************************************)
VARIABLES inPatches, patchText, outPatches, heap, work, applyInput, applyText,
          applyX, applyDelta, results

patchVars == <<inPatches, patchText, outPatches, heap, work, applyInput,
               applyText, applyX, applyDelta, results>>

\* No call of the Patch class has been made.
IdlePatch ==
  /\ inPatches = <<>>
  /\ patchText = <<>>
  /\ outPatches = <<>>
  /\ heap = <<>>
  /\ work = <<>>
  /\ applyInput = <<>>
  /\ applyText = <<>>
  /\ applyX = 0
  /\ applyDelta = 0
  /\ results = <<>>

(***************************************************************************)
(* State of a call of Match.main, Match.bitap, Diff.xIndex or              *)
(* Diff.levenshtein.                                                       *)
(*   matchText     the text argument                                       *)
(*   matchPattern  the pattern argument                                    *)
(*   argLoc        the loc argument                                        *)
(*   returned      what the call returned or threw                         *)
(***************************************************************************)
VARIABLES matchText, matchPattern, argLoc, returned

callVars == <<matchText, matchPattern, argLoc, returned>>

\* No such call has been made.
IdleCall ==
  /\ matchText = <<>>
  /\ matchPattern = <<>>
  /\ argLoc = 0
  /\ returned = <<>>

(***************************************************************************)
(* JavaScript string primitives, with 0-based indices as in the source.    *)
(***************************************************************************)
Min(a, b) == IF a < b THEN a ELSE b
Max(a, b) == IF a > b THEN a ELSE b
Abs(a) == IF a < 0 THEN 0 - a ELSE a
Clamp(i, n) == Max(0, Min(i, n))

\* String.prototype.substring(start, end): both clamped to [0, length],
\* swapped when start > end.
substring(s, start, end) ==
  LET a == Clamp(start, Len(s))
      b == Clamp(end, Len(s))
  IN  SubSeq(s, Min(a, b) + 1, Max(a, b))

\* String.prototype.substring(start)
substringFrom(s, start) == substring(s, start, Len(s))

\* String.prototype.charAt(i): the empty string when out of range.
charAt(s, i) == IF i >= 0 /\ i < Len(s) THEN <<s[i + 1]>> ELSE <<>>

\* Does pat occur in s at 0-based index i?
OccursAt(s, pat, i) ==
  /\ i >= 0
  /\ i + Len(pat) <= Len(s)
  /\ SubSeq(s, i + 1, i + Len(pat)) = pat

\* String.prototype.indexOf(pat, from)
indexOf(s, pat, from) ==
  LET start == Clamp(from, Len(s))
      hits == {i \in start..Len(s) : OccursAt(s, pat, i)}
  IN  IF hits = {} THEN -1 ELSE CHOOSE i \in hits : \A j \in hits : i <= j

\* String.prototype.lastIndexOf(pat, from)
lastIndexOf(s, pat, from) ==
  LET start == Clamp(from, Len(s))
      hits == {i \in 0..start : OccursAt(s, pat, i)}
  IN  IF hits = {} THEN -1 ELSE CHOOSE i \in hits : \A j \in hits : i >= j

\* Array.prototype.splice(start, deleteCount, ...items)
splice(arr, start, deleteCount, items) ==
  SubSeq(arr, 1, start) \o items \o SubSeq(arr, start + deleteCount + 1, Len(arr))

(***************************************************************************)
(* A method call this.f(a, b) is written Call("f", <<a, b>>).  Call is    *)
(* defined after the methods; the loops of a method are methods of their   *)
(* own, taking the loop's local variables as arguments.                    *)
(***************************************************************************)
RECURSIVE Call(_, _)

(***************************************************************************)
(* Diff: text1, text2                                                      *)
(***************************************************************************)
RECURSIVE diff_text1(_)
diff_text1(diffs) ==
  IF diffs = <<>> THEN <<>>
  ELSE (IF Head(diffs)[1] # DIFF_INSERT THEN Head(diffs)[2] ELSE <<>>)
         \o diff_text1(Tail(diffs))

RECURSIVE diff_text2(_)
diff_text2(diffs) ==
  IF diffs = <<>> THEN <<>>
  ELSE (IF Head(diffs)[1] # DIFF_DELETE THEN Head(diffs)[2] ELSE <<>>)
         \o diff_text2(Tail(diffs))

(***************************************************************************)
(* Diff: commonPrefix, commonSuffix, commonOverlap                         *)
(***************************************************************************)
RECURSIVE commonPrefixLoop(_, _, _, _, _, _)
commonPrefixLoop(text1, text2, pointermin, pointermax, pointermid, pointerstart) ==
  IF pointermin < pointermid
  THEN IF substring(text1, pointerstart, pointermid) =
          substring(text2, pointerstart, pointermid)
       THEN commonPrefixLoop(text1, text2, pointermid, pointermax,
              ((pointermax - pointermid) \div 2) + pointermid, pointermid)
       ELSE commonPrefixLoop(text1, text2, pointermin, pointermid,
              ((pointermid - pointermin) \div 2) + pointermin, pointerstart)
  ELSE pointermid

commonPrefix(text1, text2) ==
  IF text1 = <<>> \/ text2 = <<>> \/ charAt(text1, 0) # charAt(text2, 0)
  THEN 0
  ELSE Call("commonPrefixLoop", <<text1, text2, 0, Min(Len(text1), Len(text2)),
                        Min(Len(text1), Len(text2)), 0>>)

RECURSIVE commonSuffixLoop(_, _, _, _, _, _)
commonSuffixLoop(text1, text2, pointermin, pointermax, pointermid, pointerend) ==
  IF pointermin < pointermid
  THEN IF substring(text1, Len(text1) - pointermid, Len(text1) - pointerend) =
          substring(text2, Len(text2) - pointermid, Len(text2) - pointerend)
       THEN commonSuffixLoop(text1, text2, pointermid, pointermax,
              ((pointermax - pointermid) \div 2) + pointermid, pointermid)
       ELSE commonSuffixLoop(text1, text2, pointermin, pointermid,
              ((pointermid - pointermin) \div 2) + pointermin, pointerend)
  ELSE pointermid

commonSuffix(text1, text2) ==
  IF text1 = <<>> \/ text2 = <<>> \/
     charAt(text1, Len(text1) - 1) # charAt(text2, Len(text2) - 1)
  THEN 0
  ELSE Call("commonSuffixLoop", <<text1, text2, 0, Min(Len(text1), Len(text2)),
                        Min(Len(text1), Len(text2)), 0>>)

RECURSIVE commonOverlapLoop(_, _, _, _, _)
commonOverlapLoop(text1, text2, textLength, best, length) ==
  LET pattern == substringFrom(text1, textLength - length)
      found == indexOf(text2, pattern, 0)
      length2 == length + found
  IN  IF found = -1 THEN best
      ELSE IF found = 0 \/
              substringFrom(text1, textLength - length2) = substring(text2, 0, length2)
           THEN commonOverlapLoop(text1, text2, textLength, length2, length2 + 1)
           ELSE commonOverlapLoop(text1, text2, textLength, best, length2)

commonOverlap(text1, text2) ==
  LET text1Length == Len(text1)
      text2Length == Len(text2)
      t1 == IF text1Length > text2Length
            THEN substringFrom(text1, text1Length - text2Length) ELSE text1
      t2 == IF text1Length < text2Length
            THEN substring(text2, 0, text1Length) ELSE text2
      textLength == Min(text1Length, text2Length)
  IN  IF text1Length = 0 \/ text2Length = 0 THEN 0
      ELSE IF t1 = t2 THEN textLength
      ELSE Call("commonOverlapLoop", <<t1, t2, textLength, 0, 1>>)

(***************************************************************************)
(* Diff: cleanupMerge                                                      *)
(***************************************************************************)
\* The body of the DIFF_EQUAL case when countDelete + countInsert > 1.
\* st is the loop state [diffs, pointer, countDelete, countInsert,
\* textDelete, textInsert]; the result is the state after the case.
cleanupMergeRun(st) ==
  LET n == st.countDelete + st.countInsert
      both == st.countDelete # 0 /\ st.countInsert # 0
      cp == IF both THEN Call("commonPrefix", <<st.textInsert, st.textDelete>>) ELSE 0
      prevEq == (st.pointer - n) > 0 /\ st.diffs[st.pointer - n][1] = DIFF_EQUAL
      d1 == IF cp = 0 THEN st.diffs
            ELSE IF prevEq
                 THEN [st.diffs EXCEPT ![st.pointer - n] =
                         <<@[1], @[2] \o substring(st.textInsert, 0, cp)>>]
                 ELSE <<<<DIFF_EQUAL, substring(st.textInsert, 0, cp)>>>> \o st.diffs
      p1 == IF cp # 0 /\ ~prevEq THEN st.pointer + 1 ELSE st.pointer
      ti1 == substringFrom(st.textInsert, cp)
      td1 == substringFrom(st.textDelete, cp)
      cs == IF both THEN Call("commonSuffix", <<ti1, td1>>) ELSE 0
      d2 == IF cs = 0 THEN d1
            ELSE [d1 EXCEPT ![p1 + 1] =
                    <<@[1], substringFrom(ti1, Len(ti1) - cs) \o @[2]>>]
      ti2 == substring(ti1, 0, Len(ti1) - cs)
      td2 == substring(td1, 0, Len(td1) - cs)
      p2 == p1 - n
      d3 == splice(d2, p2, n, <<>>)
      d4 == IF Len(td2) # 0 THEN splice(d3, p2, 0, <<<<DIFF_DELETE, td2>>>>) ELSE d3
      p3 == IF Len(td2) # 0 THEN p2 + 1 ELSE p2
      d5 == IF Len(ti2) # 0 THEN splice(d4, p3, 0, <<<<DIFF_INSERT, ti2>>>>) ELSE d4
      p4 == IF Len(ti2) # 0 THEN p3 + 1 ELSE p3
  IN  [diffs |-> d5, pointer |-> p4 + 1, countDelete |-> 0, countInsert |-> 0,
       textDelete |-> <<>>, textInsert |-> <<>>]

\* First pass: the while loop over the script with the dummy entry.
RECURSIVE cleanupMergePass1(_)
cleanupMergePass1(st) ==
  IF st.pointer >= Len(st.diffs) THEN st.diffs
  ELSE LET cur == st.diffs[st.pointer + 1]
       IN  IF cur[1] = DIFF_INSERT
           THEN cleanupMergePass1([st EXCEPT !.countInsert = @ + 1,
                                             !.textInsert = @ \o cur[2],
                                             !.pointer = @ + 1])
           ELSE IF cur[1] = DIFF_DELETE
           THEN cleanupMergePass1([st EXCEPT !.countDelete = @ + 1,
                                             !.textDelete = @ \o cur[2],
                                             !.pointer = @ + 1])
           ELSE IF st.countDelete + st.countInsert > 1
           THEN cleanupMergePass1(Call("cleanupMergeRun", <<st>>))
           ELSE IF st.pointer # 0 /\ st.diffs[st.pointer][1] = DIFF_EQUAL
           THEN cleanupMergePass1(
                  [diffs |-> splice([st.diffs EXCEPT ![st.pointer] =
                                        <<@[1], @[2] \o cur[2]>>],
                                    st.pointer, 1, <<>>),
                   pointer |-> st.pointer, countDelete |-> 0, countInsert |-> 0,
                   textDelete |-> <<>>, textInsert |-> <<>>])
           ELSE cleanupMergePass1(
                  [diffs |-> st.diffs,
                   pointer |-> st.pointer + 1, countDelete |-> 0, countInsert |-> 0,
                   textDelete |-> <<>>, textInsert |-> <<>>])

\* Second pass: shift single edits surrounded by equalities sideways.
\* Returns <<diffs, changes>>.
RECURSIVE cleanupMergePass2(_, _, _)
cleanupMergePass2(diffs, pointer, changes) ==
  IF pointer >= Len(diffs) - 1 THEN <<diffs, changes>>
  ELSE LET prev == diffs[pointer]
           cur == diffs[pointer + 1]
           next == diffs[pointer + 2]
       IN  IF prev[1] = DIFF_EQUAL /\ next[1] = DIFF_EQUAL
           THEN IF substringFrom(cur[2], Len(cur[2]) - Len(prev[2])) = prev[2]
                THEN cleanupMergePass2(
                       splice([diffs EXCEPT
                                 ![pointer + 1] = <<cur[1], prev[2] \o
                                    substring(cur[2], 0, Len(cur[2]) - Len(prev[2]))>>,
                                 ![pointer + 2] = <<next[1], prev[2] \o next[2]>>],
                              pointer - 1, 1, <<>>),
                       pointer + 1, TRUE)
                ELSE IF substring(cur[2], 0, Len(next[2])) = next[2]
                THEN cleanupMergePass2(
                       splice([diffs EXCEPT
                                 ![pointer] = <<prev[1], prev[2] \o next[2]>>,
                                 ![pointer + 1] = <<cur[1],
                                    substringFrom(cur[2], Len(next[2])) \o next[2]>>],
                              pointer + 1, 1, <<>>),
                       pointer + 1, TRUE)
                ELSE cleanupMergePass2(diffs, pointer + 1, changes)
           ELSE cleanupMergePass2(diffs, pointer + 1, changes)

RECURSIVE cleanupMerge(_)
cleanupMerge(diffs) ==
  LET a == Call("cleanupMergePass1", <<
             [diffs |-> Append(diffs, <<DIFF_EQUAL, <<>>>>), pointer |-> 0,
              countDelete |-> 0, countInsert |-> 0,
              textDelete |-> <<>>, textInsert |-> <<>>]>>)
      b == IF a[Len(a)][2] = <<>> THEN SubSeq(a, 1, Len(a) - 1) ELSE a
      c == Call("cleanupMergePass2", <<b, 1, FALSE>>)
  IN  IF c[2] THEN cleanupMerge(c[1]) ELSE c[1]

(***************************************************************************)
(* The wall clock.  A deadline is represented by the number of clock       *)
(* reads `(new Date()).getTime() > deadline` that still answer false; the  *)
(* clock is monotonic, so once a read answers true every later one does.   *)
(* Number.MAX_VALUE (timeout <= 0) is the deadline that never expires.     *)
(***************************************************************************)
NoDeadline == -1

(***************************************************************************)
(* Diff: halfMatch                                                         *)
(***************************************************************************)
\* The while loop of halfMatchI; best is <<bestCommon, bestLongtextA,
\* bestLongtextB, bestShorttextA, bestShorttextB>>.
RECURSIVE halfMatchILoop(_, _, _, _, _, _)
halfMatchILoop(longtext, shorttext, i, seed, j0, best) ==
  LET j == indexOf(shorttext, seed, j0 + 1)
  IN  IF j = -1 THEN best
      ELSE LET prefixLength == Call("commonPrefix", <<substringFrom(longtext, i),
                                            substringFrom(shorttext, j)>>)
               suffixLength == Call("commonSuffix", <<substring(longtext, 0, i),
                                            substring(shorttext, 0, j)>>)
           IN  IF Len(best[1]) < suffixLength + prefixLength
               THEN halfMatchILoop(longtext, shorttext, i, seed, j,
                      << substring(shorttext, j - suffixLength, j) \o
                           substring(shorttext, j, j + prefixLength),
                         substring(longtext, 0, i - suffixLength),
                         substringFrom(longtext, i + prefixLength),
                         substring(shorttext, 0, j - suffixLength),
                         substringFrom(shorttext, j + prefixLength) >>)
               ELSE halfMatchILoop(longtext, shorttext, i, seed, j, best)

\* Returns <<longA, longB, shortA, shortB, common>> or <<>> for null.
halfMatchI(longtext, shorttext, i) ==
  LET seed == substring(longtext, i, i + (Len(longtext) \div 4))
      best == Call("halfMatchILoop", <<longtext, shorttext, i, seed, -1,
                             << <<>>, <<>>, <<>>, <<>>, <<>> >>>>)
  IN  IF Len(best[1]) * 2 >= Len(longtext)
      THEN <<best[2], best[3], best[4], best[5], best[1]>>
      ELSE <<>>

CeilDiv(a, b) == (a + b - 1) \div b

\* Returns <<text1A, text1B, text2A, text2B, midCommon>> or <<>> for null.
halfMatch(text1, text2) ==
  LET longtext == IF Len(text1) > Len(text2) THEN text1 ELSE text2
      shorttext == IF Len(text1) > Len(text2) THEN text2 ELSE text1
      hm1 == Call("halfMatchI", <<longtext, shorttext, CeilDiv(Len(longtext), 4)>>)
      hm2 == Call("halfMatchI", <<longtext, shorttext, CeilDiv(Len(longtext), 2)>>)
      hm == IF hm1 # <<>> /\ hm2 # <<>>
            THEN (IF Len(hm1[5]) > Len(hm2[5]) THEN hm1 ELSE hm2)
            ELSE IF hm1 # <<>> THEN hm1 ELSE hm2
  IN  IF timeout <= 0 THEN <<>>
      ELSE IF Len(longtext) < 4 \/ Len(shorttext) * 2 < Len(longtext) THEN <<>>
      ELSE IF hm = <<>> THEN <<>>
      ELSE IF Len(text1) > Len(text2)
           THEN <<hm[1], hm[2], hm[3], hm[4], hm[5]>>
           ELSE <<hm[3], hm[4], hm[1], hm[2], hm[5]>>

(***************************************************************************)
(* Diff: bisect (Myers O(ND) middle snake)                                 *)
(***************************************************************************)
RECURSIVE snakeForward(_, _, _, _)
snakeForward(text1, text2, x1, y1) ==
  IF x1 < Len(text1) /\ y1 < Len(text2) /\ charAt(text1, x1) = charAt(text2, y1)
  THEN snakeForward(text1, text2, x1 + 1, y1 + 1)
  ELSE x1

RECURSIVE snakeReverse(_, _, _, _)
snakeReverse(text1, text2, x2, y2) ==
  IF x2 < Len(text1) /\ y2 < Len(text2) /\
     charAt(text1, Len(text1) - x2 - 1) = charAt(text2, Len(text2) - y2 - 1)
  THEN snakeReverse(text1, text2, x2 + 1, y2 + 1)
  ELSE x2

bisectMaxD(text1, text2) == CeilDiv(Len(text1) + Len(text2), 2)

\* "Walk the front path one step": the for loop over k1.
\* st = [v1, v2, k1start, k1end, k2start, k2end, hit]; hit is <<x, y>>
\* when an overlap was detected (the loop returns), <<>> otherwise.
RECURSIVE bisectFront(_, _, _, _, _)
bisectFront(text1, text2, d, k1, st) ==
  IF k1 > d - st.k1end THEN st
  ELSE LET maxD == Call("bisectMaxD", <<text1, text2>>)
           vOffset == maxD
           vLength == 2 * maxD
           delta == Len(text1) - Len(text2)
           front == (delta % 2) # 0
           k1Offset == vOffset + k1
           x1a == IF k1 = -d \/ (k1 # d /\ st.v1[k1Offset - 1] < st.v1[k1Offset + 1])
                  THEN st.v1[k1Offset + 1]
                  ELSE st.v1[k1Offset - 1] + 1
           x1 == Call("snakeForward", <<text1, text2, x1a, x1a - k1>>)
           y1 == x1 - k1
           nv1 == [st.v1 EXCEPT ![k1Offset] = x1]
           k2Offset == vOffset + delta - k1
       IN  IF x1 > Len(text1)
           THEN bisectFront(text1, text2, d, k1 + 2,
                            [st EXCEPT !.v1 = nv1, !.k1end = @ + 2])
           ELSE IF y1 > Len(text2)
           THEN bisectFront(text1, text2, d, k1 + 2,
                            [st EXCEPT !.v1 = nv1, !.k1start = @ + 2])
           ELSE IF front /\ k2Offset >= 0 /\ k2Offset < vLength /\
                   st.v2[k2Offset] # -1 /\ x1 >= Len(text1) - st.v2[k2Offset]
           THEN [st EXCEPT !.v1 = nv1, !.hit = <<x1, y1>>]
           ELSE bisectFront(text1, text2, d, k1 + 2, [st EXCEPT !.v1 = nv1])

\* "Walk the reverse path one step": the for loop over k2.
RECURSIVE bisectReverse(_, _, _, _, _)
bisectReverse(text1, text2, d, k2, st) ==
  IF k2 > d - st.k2end THEN st
  ELSE LET maxD == Call("bisectMaxD", <<text1, text2>>)
           vOffset == maxD
           vLength == 2 * maxD
           delta == Len(text1) - Len(text2)
           front == (delta % 2) # 0
           k2Offset == vOffset + k2
           x2a == IF k2 = -d \/ (k2 # d /\ st.v2[k2Offset - 1] < st.v2[k2Offset + 1])
                  THEN st.v2[k2Offset + 1]
                  ELSE st.v2[k2Offset - 1] + 1
           x2 == Call("snakeReverse", <<text1, text2, x2a, x2a - k2>>)
           y2 == x2 - k2
           nv2 == [st.v2 EXCEPT ![k2Offset] = x2]
           k1Offset == vOffset + delta - k2
       IN  IF x2 > Len(text1)
           THEN bisectReverse(text1, text2, d, k2 + 2,
                              [st EXCEPT !.v2 = nv2, !.k2end = @ + 2])
           ELSE IF y2 > Len(text2)
           THEN bisectReverse(text1, text2, d, k2 + 2,
                              [st EXCEPT !.v2 = nv2, !.k2start = @ + 2])
           ELSE IF ~front /\ k1Offset >= 0 /\ k1Offset < vLength /\
                   st.v1[k1Offset] # -1 /\ st.v1[k1Offset] >= Len(text1) - x2
           THEN [st EXCEPT !.v2 = nv2,
                           !.hit = <<st.v1[k1Offset],
                                     vOffset + st.v1[k1Offset] - k1Offset>>]
           ELSE bisectReverse(text1, text2, d, k2 + 2, [st EXCEPT !.v2 = nv2])

\* The for loop over d.  Returns [hit, ticks]: the split point (or <<>>
\* when the loop ran out or the deadline was reached) and the clock reads
\* left before the deadline.
RECURSIVE bisectLoop(_, _, _, _, _)
bisectLoop(text1, text2, d, st, ticks) ==
  IF d >= Call("bisectMaxD", <<text1, text2>>) THEN [hit |-> <<>>, ticks |-> ticks]
  ELSE IF ticks = 0 THEN [hit |-> <<>>, ticks |-> 0]
  ELSE LET left == IF ticks = NoDeadline THEN NoDeadline ELSE ticks - 1
           s1 == Call("bisectFront", <<text1, text2, d, (-d) + st.k1start, st>>)
           s2 == Call("bisectReverse", <<text1, text2, d, (-d) + s1.k2start, s1>>)
       IN  IF s1.hit # <<>> THEN [hit |-> s1.hit, ticks |-> left]
           ELSE IF s2.hit # <<>> THEN [hit |-> s2.hit, ticks |-> left]
           ELSE bisectLoop(text1, text2, d + 1, s2, left)

\* The arrays v1 and v2 after initialisation.  Slot vLength exists only
\* when vOffset + 1 = vLength, that is maxD = 1.
bisectInitV(text1, text2) ==
  LET maxD == Call("bisectMaxD", <<text1, text2>>)
  IN  [x \in 0..(2 * maxD) |-> IF x = maxD + 1 THEN 0 ELSE -1]

RECURSIVE main(_, _, _, _)

\* Returns [diffs, ticks].
bisectSplit(text1, text2, x, y, ticks) ==
  LET a == Call("main", <<substring(text1, 0, x), substring(text2, 0, y), FALSE, ticks>>)
      b == Call("main", <<substringFrom(text1, x), substringFrom(text2, y), FALSE, a.ticks>>)
  IN  [diffs |-> a.diffs \o b.diffs, ticks |-> b.ticks]

\* bisect giving up at once, as if the deadline had passed.
bisect_giveUp(text1, text2, ticks) ==
  [diffs |-> << <<DIFF_DELETE, text1>>, <<DIFF_INSERT, text2>> >>, ticks |-> ticks]

\* Returns [diffs, ticks].
bisect(text1, text2, ticks) ==
  LET r == Call("bisectLoop", <<text1, text2, 0,
                      [v1 |-> Call("bisectInitV", <<text1, text2>>),
                       v2 |-> Call("bisectInitV", <<text1, text2>>),
                       k1start |-> 0, k1end |-> 0, k2start |-> 0, k2end |-> 0,
                       hit |-> <<>>],
                      ticks>>)
  IN  IF r.hit # <<>>
      THEN Call("bisectSplit", <<text1, text2, r.hit[1], r.hit[2], r.ticks>>)
      ELSE [diffs |-> << <<DIFF_DELETE, text1>>, <<DIFF_INSERT, text2>> >>,
            ticks |-> r.ticks]

(***************************************************************************)
(* Diff: cleanupSemanticLossless                                           *)
(***************************************************************************)
\* /[^a-zA-Z0-9]/
nonAlphaNumericRegex(ch) ==
  ~((ch >= 48 /\ ch <= 57) \/ (ch >= 65 /\ ch <= 90) \/ (ch >= 97 /\ ch <= 122))
\* /\s/
whitespaceRegex(ch) ==
  ch \in {9, 10, 11, 12, 13, 32, 160, 5760, 8232, 8233, 8239, 8287, 12288, 65279}
    \/ (ch >= 8192 /\ ch <= 8202)
\* /[\r\n]/
linebreakRegex(ch) == ch \in {10, 13}
\* /\n\r?\n$/
blanklineEndRegex(s) ==
  \/ (Len(s) >= 2 /\ s[Len(s)] = 10 /\ s[Len(s) - 1] = 10)
  \/ (Len(s) >= 3 /\ s[Len(s)] = 10 /\ s[Len(s) - 1] = 13 /\ s[Len(s) - 2] = 10)
\* /^\r?\n\r?\n/
blanklineStartRegex(s) ==
  LET r == IF Len(s) >= 1 /\ s[1] = 13 THEN Tail(s) ELSE s
      q == IF Len(r) >= 1 /\ r[1] = 10 THEN Tail(r) ELSE <<0>>
      z == IF Len(q) >= 1 /\ q[1] = 13 THEN Tail(q) ELSE q
  IN  Len(r) >= 1 /\ r[1] = 10 /\ Len(z) >= 1 /\ z[1] = 10

cleanupSemanticScore(one, two) ==
  IF one = <<>> \/ two = <<>> THEN 6
  ELSE LET char1 == one[Len(one)]
           char2 == two[1]
           nonAlphaNumeric1 == nonAlphaNumericRegex(char1)
           nonAlphaNumeric2 == nonAlphaNumericRegex(char2)
           whitespace1 == nonAlphaNumeric1 /\ whitespaceRegex(char1)
           whitespace2 == nonAlphaNumeric2 /\ whitespaceRegex(char2)
           lineBreak1 == whitespace1 /\ linebreakRegex(char1)
           lineBreak2 == whitespace2 /\ linebreakRegex(char2)
           blankLine1 == lineBreak1 /\ blanklineEndRegex(one)
           blankLine2 == lineBreak2 /\ blanklineStartRegex(two)
       IN  IF blankLine1 \/ blankLine2 THEN 5
           ELSE IF lineBreak1 \/ lineBreak2 THEN 4
           ELSE IF nonAlphaNumeric1 /\ ~whitespace1 /\ whitespace2 THEN 3
           ELSE IF whitespace1 \/ whitespace2 THEN 2
           ELSE IF nonAlphaNumeric1 \/ nonAlphaNumeric2 THEN 1
           ELSE 0

\* "step character by character right, looking for the best fit".
\* best = <<bestEquality1, bestEdit, bestEquality2, bestScore>>.
\* The source's loop does not terminate when edit and equality2 are both
\* empty (charAt(0) of each is ''); neither does this operator.
RECURSIVE losslessShift(_, _, _, _)
losslessShift(equality1, edit, equality2, best) ==
  IF charAt(edit, 0) = charAt(equality2, 0)
  THEN LET e1 == equality1 \o charAt(edit, 0)
           ed == substringFrom(edit, 1) \o charAt(equality2, 0)
           e2 == substringFrom(equality2, 1)
           score == Call("cleanupSemanticScore", <<e1, ed>>) + Call("cleanupSemanticScore", <<ed, e2>>)
       IN  losslessShift(e1, ed, e2,
                         IF score >= best[4] THEN <<e1, ed, e2, score>> ELSE best)
  ELSE best

RECURSIVE cleanupSemanticLosslessLoop(_, _)
cleanupSemanticLosslessLoop(diffs, pointer) ==
  IF pointer >= Len(diffs) - 1 THEN diffs
  ELSE IF diffs[pointer][1] = DIFF_EQUAL /\ diffs[pointer + 2][1] = DIFF_EQUAL
  THEN LET eq1 == diffs[pointer][2]
           ed0 == diffs[pointer + 1][2]
           eq2 == diffs[pointer + 2][2]
           commonOffset == Call("commonSuffix", <<eq1, ed0>>)
           commonString == substringFrom(ed0, Len(ed0) - commonOffset)
           equality1 == IF commonOffset # 0
                        THEN substring(eq1, 0, Len(eq1) - commonOffset) ELSE eq1
           edit == IF commonOffset # 0
                   THEN commonString \o substring(ed0, 0, Len(ed0) - commonOffset)
                   ELSE ed0
           equality2 == IF commonOffset # 0 THEN commonString \o eq2 ELSE eq2
           best == Call("losslessShift", <<equality1, edit, equality2,
                     <<equality1, edit, equality2,
                       Call("cleanupSemanticScore", <<equality1, edit>>) +
                         Call("cleanupSemanticScore", <<edit, equality2>>)>>>>)
           \* save the improvement back
           d1 == IF best[1] # <<>>
                 THEN [diffs EXCEPT ![pointer] = <<@[1], best[1]>>]
                 ELSE splice(diffs, pointer - 1, 1, <<>>)
           p1 == IF best[1] # <<>> THEN pointer ELSE pointer - 1
           d2 == [d1 EXCEPT ![p1 + 1] = <<@[1], best[2]>>]
           d3 == IF best[3] # <<>>
                 THEN [d2 EXCEPT ![p1 + 2] = <<@[1], best[3]>>]
                 ELSE splice(d2, p1 + 1, 1, <<>>)
           p2 == IF best[3] # <<>> THEN p1 ELSE p1 - 1
       IN  IF eq1 # best[1]
           THEN cleanupSemanticLosslessLoop(d3, p2 + 1)
           ELSE cleanupSemanticLosslessLoop(diffs, pointer + 1)
  ELSE cleanupSemanticLosslessLoop(diffs, pointer + 1)

cleanupSemanticLossless(diffs) == Call("cleanupSemanticLosslessLoop", <<diffs, 1>>)

(***************************************************************************)
(* Diff: cleanupSemantic                                                   *)
(***************************************************************************)
\* equalities[equalitiesLength++] = pointer.  The stack is a JavaScript
\* array indexed by a length variable of its own, which the source lets go
\* below zero; a[-1] = v then stores (and later reads) the property "-1".
stackPut(equalities, i, v) ==
  [k \in (DOMAIN equalities) \cup {i} |-> IF k = i THEN v ELSE equalities[k]]

NoEquality == <<-1>>   \* lastEquality === null

\* First loop.  st = [diffs, equalities, equalitiesLength, lastEquality,
\* pointer, lengthInsertions1, lengthDeletions1, lengthInsertions2,
\* lengthDeletions2, changes].
RECURSIVE cleanupSemanticLoop1(_)
cleanupSemanticLoop1(st) ==
  IF st.pointer >= Len(st.diffs) THEN st
  ELSE LET cur == st.diffs[st.pointer + 1]
       IN  IF cur[1] = DIFF_EQUAL
           THEN cleanupSemanticLoop1(
                  [st EXCEPT !.equalities = stackPut(@, st.equalitiesLength, st.pointer),
                             !.equalitiesLength = @ + 1,
                             !.lengthInsertions1 = st.lengthInsertions2,
                             !.lengthDeletions1 = st.lengthDeletions2,
                             !.lengthInsertions2 = 0,
                             !.lengthDeletions2 = 0,
                             !.lastEquality = cur[2],
                             !.pointer = @ + 1])
           ELSE LET li2 == IF cur[1] = DIFF_INSERT
                           THEN st.lengthInsertions2 + Len(cur[2])
                           ELSE st.lengthInsertions2
                    ld2 == IF cur[1] = DIFF_INSERT
                           THEN st.lengthDeletions2
                           ELSE st.lengthDeletions2 + Len(cur[2])
                    top == st.equalities[st.equalitiesLength - 1]
                    len2 == st.equalitiesLength - 2
                IN  IF st.lastEquality # NoEquality /\
                       Len(st.lastEquality) <=
                         Max(st.lengthInsertions1, st.lengthDeletions1) /\
                       Len(st.lastEquality) <= Max(li2, ld2)
                    THEN cleanupSemanticLoop1(
                           [st EXCEPT
                              !.diffs = [splice(@, top, 0,
                                           <<<<DIFF_DELETE, st.lastEquality>>>>)
                                         EXCEPT ![top + 2] = <<DIFF_INSERT, @[2]>>],
                              !.equalitiesLength = len2,
                              !.pointer = (IF len2 > 0 THEN st.equalities[len2 - 1]
                                           ELSE -1) + 1,
                              !.lengthInsertions1 = 0,
                              !.lengthDeletions1 = 0,
                              !.lengthInsertions2 = 0,
                              !.lengthDeletions2 = 0,
                              !.lastEquality = NoEquality,
                              !.changes = TRUE])
                    ELSE cleanupSemanticLoop1(
                           [st EXCEPT !.lengthInsertions2 = li2,
                                      !.lengthDeletions2 = ld2,
                                      !.pointer = @ + 1])

\* Second loop: overlaps between deletions and insertions.
RECURSIVE cleanupSemanticLoop2(_, _)
cleanupSemanticLoop2(diffs, pointer) ==
  IF pointer >= Len(diffs) THEN diffs
  ELSE IF diffs[pointer][1] = DIFF_DELETE /\ diffs[pointer + 1][1] = DIFF_INSERT
  THEN LET deletion == diffs[pointer][2]
           insertion == diffs[pointer + 1][2]
           overlapLength1 == Call("commonOverlap", <<deletion, insertion>>)
           overlapLength2 == Call("commonOverlap", <<insertion, deletion>>)
       IN  IF overlapLength1 >= overlapLength2
           THEN IF overlapLength1 * 2 >= Len(deletion) \/
                   overlapLength1 * 2 >= Len(insertion)
                THEN cleanupSemanticLoop2(
                       [splice(diffs, pointer, 0,
                               <<<<DIFF_EQUAL, substring(insertion, 0, overlapLength1)>>>>)
                        EXCEPT ![pointer] = <<@[1],
                                  substring(deletion, 0, Len(deletion) - overlapLength1)>>,
                               ![pointer + 2] = <<@[1],
                                  substringFrom(insertion, overlapLength1)>>],
                       pointer + 3)
                ELSE cleanupSemanticLoop2(diffs, pointer + 2)
           ELSE IF overlapLength2 * 2 >= Len(deletion) \/
                   overlapLength2 * 2 >= Len(insertion)
                THEN cleanupSemanticLoop2(
                       [splice(diffs, pointer, 0,
                               <<<<DIFF_EQUAL, substring(deletion, 0, overlapLength2)>>>>)
                        EXCEPT ![pointer] = <<DIFF_INSERT,
                                  substring(insertion, 0, Len(insertion) - overlapLength2)>>,
                               ![pointer + 2] = <<DIFF_DELETE,
                                  substringFrom(deletion, overlapLength2)>>],
                       pointer + 3)
                ELSE cleanupSemanticLoop2(diffs, pointer + 2)
  ELSE cleanupSemanticLoop2(diffs, pointer + 1)

cleanupSemantic(diffs) ==
  LET a == Call("cleanupSemanticLoop1", <<
             [diffs |-> diffs, equalities |-> <<>>, equalitiesLength |-> 0,
              lastEquality |-> NoEquality, pointer |-> 0,
              lengthInsertions1 |-> 0, lengthDeletions1 |-> 0,
              lengthInsertions2 |-> 0, lengthDeletions2 |-> 0,
              changes |-> FALSE]>>)
      b == IF a.changes THEN Call("cleanupMerge", <<a.diffs>>) ELSE a.diffs
  IN  Call("cleanupSemanticLoop2", <<Call("cleanupSemanticLossless", <<b>>), 1>>)

(***************************************************************************)
(* Diff: linesToChars, charsToLines, lineMode                              *)
(***************************************************************************)
\* lineHash is a plain object literal {}; a lookup lineHash[line] that
\* finds no own property falls through to Object.prototype.  These are the
\* property names every plain object inherits.
Str_valueOf == <<118, 97, 108, 117, 101, 79, 102>>
Str_toString == <<116, 111, 83, 116, 114, 105, 110, 103>>
Str_constructor == <<99, 111, 110, 115, 116, 114, 117, 99, 116, 111, 114>>
Str___proto__ == <<95, 95, 112, 114, 111, 116, 111, 95, 95>>
ObjectPrototypeKeys == {Str_valueOf, Str_toString, Str_constructor, Str___proto__}

\* String.fromCharCode(v) for v = lineHash[line]: an own property is a
\* number n and gives code unit n mod 2^16; an inherited property is a
\* function or object, ToNumber of which is NaN, and gives code unit 0.
fromCharCode(n) == <<n % 65536>>

\* The while loop of linesToCharsMunge.  st = [chars, lineStart, lineEnd,
\* lineArray, lineHash]; lineArray[i + 1] is the source's lineArray[i].
RECURSIVE linesToCharsMunge(_, _, _)
linesToCharsMunge(text, maxLines, st) ==
  IF st.lineEnd >= Len(text) - 1 THEN st
  ELSE LET found == indexOf(text, <<10>>, st.lineStart)
           lineEnd == IF found = -1 THEN Len(text) - 1 ELSE found
           line == substring(text, st.lineStart, lineEnd + 1)
           lineArrayLength == Len(st.lineArray)
           bail == lineArrayLength = maxLines
           line2 == IF bail THEN substringFrom(text, st.lineStart) ELSE line
           lineEnd2 == IF bail THEN Len(text) ELSE lineEnd
       IN  IF line \in DOMAIN st.lineHash
           THEN linesToCharsMunge(text, maxLines,
                  [st EXCEPT !.chars = @ \o fromCharCode(st.lineHash[line]),
                             !.lineStart = lineEnd + 1,
                             !.lineEnd = lineEnd])
           ELSE IF line \in ObjectPrototypeKeys
           THEN linesToCharsMunge(text, maxLines,
                  [st EXCEPT !.chars = @ \o <<0>>,
                             !.lineStart = lineEnd + 1,
                             !.lineEnd = lineEnd])
           ELSE linesToCharsMunge(text, maxLines,
                  [st EXCEPT !.chars = @ \o fromCharCode(lineArrayLength),
                             !.lineHash = stackPut(@, line2, lineArrayLength),
                             !.lineArray = Append(@, line2),
                             !.lineStart = lineEnd2 + 1,
                             !.lineEnd = lineEnd2])

MaxLines1 == 40000
MaxLines2 == 65535

\* Returns [chars1, chars2, lineArray].
linesToChars(text1, text2) ==
  LET a == Call("linesToCharsMunge", <<text1, MaxLines1,
             [chars |-> <<>>, lineStart |-> 0, lineEnd |-> -1,
              lineArray |-> << <<>> >>, lineHash |-> <<>>]>>)
      b == Call("linesToCharsMunge", <<text2, MaxLines2,
             [chars |-> <<>>, lineStart |-> 0, lineEnd |-> -1,
              lineArray |-> a.lineArray, lineHash |-> a.lineHash]>>)
  IN  [chars1 |-> a.chars, chars2 |-> b.chars, lineArray |-> b.lineArray]

\* lineArray[chars.charCodeAt(j)] joined; a missing slot joins as ''.
RECURSIVE charsToLinesText(_, _)
charsToLinesText(chars, lineArray) ==
  IF chars = <<>> THEN <<>>
  ELSE (IF Head(chars) + 1 <= Len(lineArray) THEN lineArray[Head(chars) + 1] ELSE <<>>)
         \o charsToLinesText(Tail(chars), lineArray)

RECURSIVE charsToLines(_, _)
charsToLines(diffs, lineArray) ==
  IF diffs = <<>> THEN <<>>
  ELSE <<<<Head(diffs)[1],
           Call("charsToLinesText", <<Head(diffs)[2], lineArray>>)>>>>
         \o charsToLines(Tail(diffs), lineArray)

\* "Rediff any replacement blocks, this time character-by-character."
\* st = [diffs, pointer, countDelete, countInsert, textDelete, textInsert,
\* ticks].
RECURSIVE lineModeLoop(_)
lineModeLoop(st) ==
  IF st.pointer >= Len(st.diffs) THEN st
  ELSE LET cur == st.diffs[st.pointer + 1]
       IN  IF cur[1] = DIFF_INSERT
           THEN lineModeLoop([st EXCEPT !.countInsert = @ + 1,
                                        !.textInsert = @ \o cur[2],
                                        !.pointer = @ + 1])
           ELSE IF cur[1] = DIFF_DELETE
           THEN lineModeLoop([st EXCEPT !.countDelete = @ + 1,
                                        !.textDelete = @ \o cur[2],
                                        !.pointer = @ + 1])
           ELSE IF st.countDelete >= 1 /\ st.countInsert >= 1
           THEN LET n == st.countDelete + st.countInsert
                    p == st.pointer - n
                    sub == Call("main", <<st.textDelete, st.textInsert, FALSE, st.ticks>>)
                IN  lineModeLoop(
                      [diffs |-> splice(st.diffs, p, n, sub.diffs),
                       pointer |-> p + Len(sub.diffs) + 1,
                       countDelete |-> 0, countInsert |-> 0,
                       textDelete |-> <<>>, textInsert |-> <<>>,
                       ticks |-> sub.ticks])
           ELSE lineModeLoop(
                  [st EXCEPT !.countDelete = 0, !.countInsert = 0,
                             !.textDelete = <<>>, !.textInsert = <<>>,
                             !.pointer = @ + 1])

\* Returns [diffs, ticks].
lineMode(text1, text2, ticks) ==
  LET a == Call("linesToChars", <<text1, text2>>)
      m == Call("main", <<a.chars1, a.chars2, FALSE, ticks>>)
      d == Call("cleanupSemantic", <<Call("charsToLines", <<m.diffs, a.lineArray>>)>>)
      r == Call("lineModeLoop", <<
             [ticks |-> m.ticks, diffs |-> Append(d, <<DIFF_EQUAL, <<>>>>),
              pointer |-> 0, countDelete |-> 0, countInsert |-> 0,
              textDelete |-> <<>>, textInsert |-> <<>>]>>)
  IN  [diffs |-> SubSeq(r.diffs, 1, Len(r.diffs) - 1), ticks |-> r.ticks]

(***************************************************************************)
(* Diff: compute, main                                                     *)
(***************************************************************************)
LineModeMinLength == 100

\* Returns [diffs, ticks].
compute(text1, text2, checklines, ticks) ==
  LET longtext == IF Len(text1) > Len(text2) THEN text1 ELSE text2
      shorttext == IF Len(text1) > Len(text2) THEN text2 ELSE text1
      i == indexOf(longtext, shorttext, 0)
      op == IF Len(text1) > Len(text2) THEN DIFF_DELETE ELSE DIFF_INSERT
      hm == Call("halfMatch", <<text1, text2>>)
      diffsA == Call("main", <<hm[1], hm[3], checklines, ticks>>)
      diffsB == Call("main", <<hm[2], hm[4], checklines, diffsA.ticks>>)
  IN  IF text1 = <<>>
      THEN [diffs |-> << <<DIFF_INSERT, text2>> >>, ticks |-> ticks]
      ELSE IF text2 = <<>>
      THEN [diffs |-> << <<DIFF_DELETE, text1>> >>, ticks |-> ticks]
      ELSE IF i # -1
      THEN [diffs |-> << <<op, substring(longtext, 0, i)>>,
                         <<DIFF_EQUAL, shorttext>>,
                         <<op, substringFrom(longtext, i + Len(shorttext))>> >>,
            ticks |-> ticks]
      ELSE IF Len(shorttext) = 1
      THEN [diffs |-> << <<DIFF_DELETE, text1>>, <<DIFF_INSERT, text2>> >>,
            ticks |-> ticks]
      ELSE IF hm # <<>>
      THEN [diffs |-> diffsA.diffs \o << <<DIFF_EQUAL, hm[5]>> >> \o diffsB.diffs,
            ticks |-> diffsB.ticks]
      ELSE IF checklines /\ Len(text1) > LineModeMinLength /\
              Len(text2) > LineModeMinLength
      THEN Call("lineMode", <<text1, text2, ticks>>)
      ELSE Call("bisect", <<text1, text2, ticks>>)

\* Diff.main with an explicit deadline.  Returns [diffs, ticks].
main(text1, text2, checklines, ticks) ==
  IF text1 = text2
  THEN [diffs |-> IF text1 # <<>> THEN << <<DIFF_EQUAL, text1>> >> ELSE <<>>,
        ticks |-> ticks]
  ELSE LET pre == Call("commonPrefix", <<text1, text2>>)
           commonprefix == substring(text1, 0, pre)
           t1a == substringFrom(text1, pre)
           t2a == substringFrom(text2, pre)
           suf == Call("commonSuffix", <<t1a, t2a>>)
           commonsuffix == substringFrom(t1a, Len(t1a) - suf)
           t1b == substring(t1a, 0, Len(t1a) - suf)
           t2b == substring(t2a, 0, Len(t2a) - suf)
           c == Call("compute", <<t1b, t2b, checklines, ticks>>)
           d1 == IF commonprefix # <<>>
                 THEN << <<DIFF_EQUAL, commonprefix>> >> \o c.diffs ELSE c.diffs
           d2 == IF commonsuffix # <<>>
                 THEN Append(d1, <<DIFF_EQUAL, commonsuffix>>) ELSE d1
       IN  [ticks |-> c.ticks, diffs |-> Call("cleanupMerge", <<d2>>)]

(***************************************************************************)
(* Results of calls that may throw: a returned value or the error thrown.  *)
(***************************************************************************)
Return(v) == [ok |-> TRUE, val |-> v, err |-> ""]
Throw(e) == [ok |-> FALSE, val |-> <<>>, err |-> e]

\* null and undefined passed where the signature has a string; neither is
\* a sequence of code units.
JsNull == <<-1>>
JsUndefined == <<-2>>

\* Diff.main as a caller reaches it, with text1 and text2 that may be null
\* or undefined.  undefined passes the test for null; two undefined texts
\* are equal and not '', one undefined text fails at its first method call
\* (charAt in commonPrefix or substring in main).
diff_main(text1, text2, checklines, ticks) ==
  IF text1 = JsNull \/ text2 = JsNull THEN Throw("Null input. (main)")
  ELSE IF text1 = JsUndefined /\ text2 = JsUndefined
  THEN Return(<< <<DIFF_EQUAL, JsUndefined>> >>)
  ELSE IF text1 = JsUndefined \/ text2 = JsUndefined
  THEN Throw("TypeError: Cannot read properties of undefined")
  ELSE Return(Call("main", <<text1, text2, checklines, ticks>>).diffs)

(***************************************************************************)
(* JavaScript encodeURI and decodeURI (ECMA-262 Encode and Decode), on     *)
(* sequences of UTF-16 code units.                                         *)
(***************************************************************************)
\* ; / ? : @ & = + $ ,  and #
uriReservedPlusHash == {59, 47, 63, 58, 64, 38, 61, 43, 36, 44, 35}
\* letters, digits and - _ . ! ~ * ' ( )
uriUnescaped ==
  (65..90) \cup (97..122) \cup (48..57) \cup {45, 95, 46, 33, 126, 42, 39, 40, 41}

isHighSurrogate(c) == c >= 55296 /\ c <= 56319
isLowSurrogate(c) == c >= 56320 /\ c <= 57343

\* The octets of the UTF-8 encoding of code point v.
utf8Octets(v) ==
  IF v < 128 THEN <<v>>
  ELSE IF v < 2048 THEN <<192 + (v \div 64), 128 + (v % 64)>>
  ELSE IF v < 65536
    THEN <<224 + (v \div 4096), 128 + ((v \div 64) % 64), 128 + (v % 64)>>
  ELSE <<240 + (v \div 262144), 128 + ((v \div 4096) % 64),
         128 + ((v \div 64) % 64), 128 + (v % 64)>>

hexDigit(n) == IF n < 10 THEN 48 + n ELSE 55 + n

\* "%XX" for every octet, upper-case hexadecimal.
RECURSIVE percentEncode(_)
percentEncode(octets) ==
  IF octets = <<>> THEN <<>>
  ELSE <<37, hexDigit(Head(octets) \div 16), hexDigit(Head(octets) % 16)>>
         \o percentEncode(Tail(octets))

\* Encode(string, uriReserved + uriUnescaped + "#"); k is the 0-based index,
\* R the result so far.  Throws URIError on a lone surrogate.
RECURSIVE encodeURILoop(_, _, _)
encodeURILoop(s, k, R) ==
  IF k >= Len(s) THEN Return(R)
  ELSE IF s[k + 1] \in uriReservedPlusHash \cup uriUnescaped
    THEN encodeURILoop(s, k + 1, Append(R, s[k + 1]))
  ELSE IF isLowSurrogate(s[k + 1]) THEN Throw("URIError")
  ELSE IF ~isHighSurrogate(s[k + 1])
    THEN encodeURILoop(s, k + 1, R \o percentEncode(utf8Octets(s[k + 1])))
  ELSE IF k + 1 >= Len(s) THEN Throw("URIError")
  ELSE IF ~isLowSurrogate(s[k + 2]) THEN Throw("URIError")
  ELSE encodeURILoop(s, k + 2,
         R \o percentEncode(utf8Octets(
                (s[k + 1] - 55296) * 1024 + (s[k + 2] - 56320) + 65536)))

encodeURI(s) == encodeURILoop(s, 0, <<>>)

isHex(c) == c \in (48..57) \cup (65..70) \cup (97..102)
hexValue(c) == IF c <= 57 THEN c - 48 ELSE IF c <= 70 THEN c - 55 ELSE c - 87

\* Is "%XX" with two hexadecimal digits at 0-based index k of s?
escapeAt(s, k) ==
  /\ k + 2 < Len(s)
  /\ s[k + 1] = 37
  /\ isHex(s[k + 2])
  /\ isHex(s[k + 3])

octetAt(s, k) == hexValue(s[k + 2]) * 16 + hexValue(s[k + 3])

\* The number of octets announced by the leading octet b of a UTF-8
\* sequence (0: not a leading octet of a multi-octet sequence).
utf8Length(b) ==
  IF b >= 192 /\ b < 224 THEN 2
  ELSE IF b >= 224 /\ b < 240 THEN 3
  ELSE IF b >= 240 /\ b < 248 THEN 4
  ELSE 0

\* n - 1 escapes of continuation octets (10xxxxxx) from 0-based index k.
RECURSIVE continuationAt(_, _, _)
continuationAt(s, k, n) ==
  IF n = 1 THEN TRUE
  ELSE /\ escapeAt(s, k)
       /\ octetAt(s, k) >= 128
       /\ octetAt(s, k) < 192
       /\ continuationAt(s, k + 3, n - 1)

\* The code point of the n-octet sequence escaped at 0-based index k.
utf8Value(s, k, n) ==
  IF n = 2 THEN (octetAt(s, k) - 192) * 64 + (octetAt(s, k + 3) - 128)
  ELSE IF n = 3
    THEN (octetAt(s, k) - 224) * 4096 + (octetAt(s, k + 3) - 128) * 64
           + (octetAt(s, k + 6) - 128)
  ELSE (octetAt(s, k) - 240) * 262144 + (octetAt(s, k + 3) - 128) * 4096
         + (octetAt(s, k + 6) - 128) * 64 + (octetAt(s, k + 9) - 128)

\* A valid UTF-8 value of an n-octet sequence: not overlong, no surrogate,
\* at most U+10FFFF.
utf8Valid(v, n) ==
  /\ v >= (IF n = 2 THEN 128 ELSE IF n = 3 THEN 2048 ELSE 65536)
  /\ v <= 1114111
  /\ ~(v >= 55296 /\ v <= 57343)

utf16Units(v) ==
  IF v < 65536 THEN <<v>>
  ELSE <<55296 + ((v - 65536) \div 1024), 56320 + ((v - 65536) % 1024)>>

\* Decode(string, uriReserved + "#").  Throws URIError on a malformed escape.
RECURSIVE decodeURILoop(_, _, _)
decodeURILoop(s, k, R) ==
  IF k >= Len(s) THEN Return(R)
  ELSE IF s[k + 1] # 37 THEN decodeURILoop(s, k + 1, Append(R, s[k + 1]))
  ELSE IF ~escapeAt(s, k) THEN Throw("URIError")
  ELSE IF octetAt(s, k) < 128
    THEN decodeURILoop(s, k + 3,
           IF octetAt(s, k) \in uriReservedPlusHash
           THEN R \o SubSeq(s, k + 1, k + 3)
           ELSE Append(R, octetAt(s, k)))
  ELSE IF utf8Length(octetAt(s, k)) = 0 THEN Throw("URIError")
  ELSE IF ~continuationAt(s, k + 3, utf8Length(octetAt(s, k)))
    THEN Throw("URIError")
  ELSE IF ~utf8Valid(utf8Value(s, k, utf8Length(octetAt(s, k))),
                     utf8Length(octetAt(s, k)))
    THEN Throw("URIError")
  ELSE decodeURILoop(s, k + 3 * utf8Length(octetAt(s, k)),
         R \o utf16Units(utf8Value(s, k, utf8Length(octetAt(s, k)))))

decodeURI(s) == decodeURILoop(s, 0, <<>>)

\* String.prototype.replace(/%20/g, ' ')
RECURSIVE replacePercent20(_)
replacePercent20(s) ==
  IF s = <<>> THEN <<>>
  ELSE IF Len(s) >= 3 /\ SubSeq(s, 1, 3) = <<37, 50, 48>>
    THEN <<32>> \o replacePercent20(SubSeq(s, 4, Len(s)))
  ELSE <<Head(s)>> \o replacePercent20(Tail(s))

\* Number.prototype.toString() of an integer.
RECURSIVE numberToString(_)
numberToString(n) ==
  IF n < 0 THEN <<45>> \o numberToString(0 - n)
  ELSE IF n < 10 THEN <<48 + n>>
  ELSE numberToString(n \div 10) \o <<48 + (n % 10)>>

\* White space skipped by parseInt (StrWhiteSpaceChar).
whiteSpaceChars == {9, 10, 11, 12, 13, 32, 160, 5760, 8232, 8233, 8239, 8287,
                    12288, 65279} \cup (8192..8202)

RECURSIVE skipWhiteSpace(_)
skipWhiteSpace(s) ==
  IF s # <<>> /\ Head(s) \in whiteSpaceChars THEN skipWhiteSpace(Tail(s)) ELSE s

\* The value of the decimal digits leading s, after the value acc.
RECURSIVE parseDigits(_, _)
parseDigits(s, acc) ==
  IF s # <<>> /\ Head(s) \in 48..57
  THEN parseDigits(Tail(s), acc * 10 + (Head(s) - 48))
  ELSE acc

\* The digits of parseInt's argument s after its sign.
afterSign(s) == IF s # <<>> /\ Head(s) \in {43, 45} THEN Tail(s) ELSE s

\* parseInt(s, 10): [nan |-> TRUE] or [nan |-> FALSE, val |-> n].
parseIntSigned(t) ==
  IF afterSign(t) = <<>> \/ Head(afterSign(t)) \notin 48..57
  THEN [nan |-> TRUE, val |-> 0]
  ELSE [nan |-> FALSE,
        val |-> IF Head(t) = 45 THEN 0 - parseDigits(afterSign(t), 0)
                ELSE parseDigits(afterSign(t), 0)]

parseInt(s) == parseIntSigned(skipWhiteSpace(s))

\* String.prototype.split(sep) for a one-character separator; cur is the
\* piece being read.
RECURSIVE splitLoop(_, _, _)
splitLoop(s, sep, cur) ==
  IF s = <<>> THEN <<cur>>
  ELSE IF Head(s) = sep THEN <<cur>> \o splitLoop(Tail(s), sep, <<>>)
  ELSE splitLoop(Tail(s), sep, Append(cur, Head(s)))

split(s, sep) == splitLoop(s, sep, <<>>)

\* Array.prototype.join(sep) for a one-character (or empty) separator.
RECURSIVE join(_, _)
join(arr, sep) ==
  IF arr = <<>> THEN <<>>
  ELSE IF Len(arr) = 1 THEN arr[1]
  ELSE arr[1] \o sep \o join(Tail(arr), sep)

(***************************************************************************)
(* Diff: toDelta, fromDelta                                                *)
(***************************************************************************)
\* The token of one tuple; a thrown URIError leaves toDelta.
toDeltaToken(diff) ==
  IF diff[1] = DIFF_INSERT
  THEN IF Call("encodeURI", <<diff[2]>>).ok
       THEN Return(<<43>> \o Call("encodeURI", <<diff[2]>>).val)
       ELSE Throw("URIError")
  ELSE IF diff[1] = DIFF_DELETE
    THEN Return(<<45>> \o numberToString(Len(diff[2])))
  ELSE Return(<<61>> \o numberToString(Len(diff[2])))

\* The for loop of toDelta; text is the array of tokens so far.
RECURSIVE toDeltaLoop(_, _, _)
toDeltaLoop(diffs, x, text) ==
  IF x >= Len(diffs) THEN Return(text)
  ELSE IF ~Call("toDeltaToken", <<diffs[x + 1]>>).ok THEN Throw("URIError")
  ELSE toDeltaLoop(diffs, x + 1,
         Append(text, Call("toDeltaToken", <<diffs[x + 1]>>).val))

toDeltaJoin(r) ==
  IF r.ok THEN Return(replacePercent20(join(r.val, <<9>>))) ELSE r

toDelta(diffs) == Call("toDeltaJoin", <<Call("toDeltaLoop", <<diffs, 0, <<>>>>)>>)

\* fromDeltaNumber with the cursor kept within text1.
fromDeltaNumber_clamped(text1, token, n, st) ==
  IF n.nan \/ n.val < 0 THEN Throw("Invalid number in fromDelta")
  ELSE Return([diffs |-> Append(st.diffs,
                 <<IF charAt(token, 0) = <<61>> THEN DIFF_EQUAL ELSE DIFF_DELETE,
                   substring(text1, st.pointer, st.pointer + n.val)>>),
               pointer |-> Min(st.pointer + n.val, Len(text1))])

\* One token of fromDelta: the state st = [diffs, pointer] after it, or the
\* error thrown.
fromDeltaNumber(text1, token, n, st) ==
  IF n.nan \/ n.val < 0 THEN Throw("Invalid number in fromDelta")
  ELSE Return([diffs |-> Append(st.diffs,
                 <<IF charAt(token, 0) = <<61>> THEN DIFF_EQUAL ELSE DIFF_DELETE,
                   substring(text1, st.pointer, st.pointer + n.val)>>),
               pointer |-> st.pointer + n.val])

fromDeltaInsert(decoded, st) ==
  IF ~decoded.ok THEN Throw("Illegal escape in fromDelta")
  ELSE Return([diffs |-> Append(st.diffs, <<DIFF_INSERT, decoded.val>>),
               pointer |-> st.pointer])

fromDeltaToken(text1, token, st) ==
  IF charAt(token, 0) = <<43>>
  THEN Call("fromDeltaInsert", <<Call("decodeURI", <<substringFrom(token, 1)>>), st>>)
  ELSE IF charAt(token, 0) \in {<<45>>, <<61>>}
    THEN Call("fromDeltaNumber",
              <<text1, token, Call("parseInt", <<substringFrom(token, 1)>>), st>>)
  ELSE IF token # <<>> THEN Throw("Invalid diff operation in fromDelta")
  ELSE Return(st)

\* The for loop of fromDelta over the tokens; r is the result of the
\* previous token.
RECURSIVE fromDeltaLoop(_, _, _, _)
fromDeltaLoop(text1, tokens, x, r) ==
  IF ~r.ok THEN r
  ELSE IF x >= Len(tokens)
    THEN IF r.val.pointer # Len(text1)
         THEN Throw("Delta length does not equal source text length")
         ELSE Return(r.val.diffs)
  ELSE fromDeltaLoop(text1, tokens, x + 1,
         Call("fromDeltaToken", <<text1, tokens[x + 1], r.val>>))

fromDelta(text1, delta) ==
  Call("fromDeltaLoop",
       <<text1, split(delta, 9), 0, Return([diffs |-> <<>>, pointer |-> 0])>>)

(***************************************************************************)
(* PatchObj.  A hunk is a record [diffs, start1, start2, length1,          *)
(* length2]; start1 and start2 are number | null, written <<n>> and <<>>.  *)
(***************************************************************************)
Null == <<>>
Num(n) == <<n>>
\* v ?? 0
orZero(v) == IF v = Null THEN 0 ELSE v[1]

\* new PatchObj()
newPatchObj ==
  [diffs |-> <<>>, start1 |-> Null, start2 |-> Null, length1 |-> 0, length2 |-> 0]

\* coords1 and coords2 of PatchObj.toString
toStringCoords(start, length) ==
  IF length = 0 THEN numberToString(start) \o <<44, 48>>
  ELSE IF length = 1 THEN numberToString(start + 1)
  ELSE numberToString(start + 1) \o <<44>> \o numberToString(length)

\* '+', '-' or ' '
toStringOp(op) ==
  IF op = DIFF_INSERT THEN 43 ELSE IF op = DIFF_DELETE THEN 45 ELSE 32

\* The for loop of PatchObj.toString; text is the joined array so far.
RECURSIVE toStringLoop(_, _, _)
toStringLoop(diffs, x, text) ==
  IF x >= Len(diffs) THEN Return(text)
  ELSE IF ~Call("encodeURI", <<diffs[x + 1][2]>>).ok THEN Throw("URIError")
  ELSE toStringLoop(diffs, x + 1,
         text \o <<toStringOp(diffs[x + 1][1])>>
              \o Call("encodeURI", <<diffs[x + 1][2]>>).val \o <<10>>)

toStringReplace(r) == IF r.ok THEN Return(replacePercent20(r.val)) ELSE r

\* PatchObj.toString
PatchObj_toString(patch) ==
  IF patch.start1 = Null \/ patch.start2 = Null
  THEN Throw("PatchObj.toString: this.start1 or this.start2 is null")
  ELSE Call("toStringReplace", <<Call("toStringLoop",
         <<patch.diffs, 0,
           <<64, 64, 32, 45>> \o toStringCoords(patch.start1[1], patch.length1)
             \o <<32, 43>> \o toStringCoords(patch.start2[1], patch.length2)
             \o <<32, 64, 64, 10>> >>)>>)

(***************************************************************************)
(* Patch: toText, fromText                                                 *)
(***************************************************************************)
\* text.join('') converts every hunk with PatchObj.toString.
RECURSIVE toTextLoop(_, _, _)
toTextLoop(patches, x, text) ==
  IF x >= Len(patches) THEN Return(text)
  ELSE IF ~Call("PatchObj_toString", <<patches[x + 1]>>).ok
    THEN Call("PatchObj_toString", <<patches[x + 1]>>)
  ELSE toTextLoop(patches, x + 1,
         text \o Call("PatchObj_toString", <<patches[x + 1]>>).val)

toText(patches) == Call("toTextLoop", <<patches, 0, <<>>>>)

\* The number of decimal digits leading s.
RECURSIVE countDigits(_)
countDigits(s) ==
  IF s # <<>> /\ Head(s) \in 48..57 THEN 1 + countDigits(Tail(s)) ELSE 0

\* (\d+),?(\d*) at the head of s, given the number n of digits leading s
\* and the number k of digits after the optional comma.
headerCoords3(s, n, c, k) ==
  [ok |-> TRUE, a |-> SubSeq(s, 1, n), b |-> SubSeq(s, n + c + 1, n + c + k),
   rest |-> SubSeq(s, n + c + k + 1, Len(s))]

headerCoords2(s, n, c) ==
  headerCoords3(s, n, c, countDigits(SubSeq(s, n + c + 1, Len(s))))

headerCoords(s, n) ==
  IF n = 0 THEN [ok |-> FALSE, a |-> <<>>, b |-> <<>>, rest |-> <<>>]
  ELSE headerCoords2(s, n, IF Len(s) > n /\ s[n + 1] = 44 THEN 1 ELSE 0)

\* line.match(/^@@ -(\d+),?(\d*) \+(\d+),?(\d*) @@$/): the four groups or
\* <<>> for null.
patchHeader3(c1, c2) ==
  IF c2.ok /\ c2.rest = <<32, 64, 64>> THEN <<c1.a, c1.b, c2.a, c2.b>> ELSE <<>>

patchHeader2(c1) ==
  IF c1.ok /\ Len(c1.rest) >= 2 /\ SubSeq(c1.rest, 1, 2) = <<32, 43>>
  THEN patchHeader3(c1, headerCoords(SubSeq(c1.rest, 3, Len(c1.rest)),
                                     countDigits(SubSeq(c1.rest, 3, Len(c1.rest)))))
  ELSE <<>>

patchHeader(line) ==
  IF Len(line) >= 4 /\ SubSeq(line, 1, 4) = <<64, 64, 32, 45>>
  THEN patchHeader2(headerCoords(SubSeq(line, 5, Len(line)),
                                 countDigits(SubSeq(line, 5, Len(line)))))
  ELSE <<>>

\* start and length of one side from its two header groups.
fromTextStart(a, b) ==
  IF b = <<48>> THEN Num(parseInt(a).val) ELSE Num(parseInt(a).val - 1)

fromTextLength(b) ==
  IF b = <<>> THEN 1 ELSE IF b = <<48>> THEN 0 ELSE parseInt(b).val

\* The hunk made from the groups m of a header.
fromTextHeader(m) ==
  [diffs |-> <<>>, start1 |-> fromTextStart(m[1], m[2]),
   start2 |-> fromTextStart(m[3], m[4]),
   length1 |-> fromTextLength(m[2]), length2 |-> fromTextLength(m[4])]

\* The inner while loop of fromText skipping the lines it does not know.
fromTextBody_lenient(text, textPointer, patch) ==
  IF textPointer >= Len(text)
  THEN Return([patch |-> patch, textPointer |-> textPointer])
  ELSE IF charAt(text[textPointer + 1], 0) = <<64>>
    THEN Return([patch |-> patch, textPointer |-> textPointer])
  ELSE IF ~Call("decodeURI", <<substringFrom(text[textPointer + 1], 1)>>).ok
    THEN Throw("Illegal escape in fromText")
  ELSE IF charAt(text[textPointer + 1], 0) \in {<<45>>, <<43>>, <<32>>}
    THEN Call("fromTextBody", <<text, textPointer + 1,
           [patch EXCEPT !.diffs = Append(@,
              <<IF charAt(text[textPointer + 1], 0) = <<45>> THEN DIFF_DELETE
                ELSE IF charAt(text[textPointer + 1], 0) = <<43>> THEN DIFF_INSERT
                ELSE DIFF_EQUAL,
                Call("decodeURI", <<substringFrom(text[textPointer + 1], 1)>>).val>>)]>>)
  ELSE Call("fromTextBody", <<text, textPointer + 1, patch>>)

\* The inner while loop of fromText: the body lines of one hunk.  Returns
\* [patch, textPointer] or the error thrown.
RECURSIVE fromTextBody(_, _, _)
fromTextBody(text, textPointer, patch) ==
  IF textPointer >= Len(text)
  THEN Return([patch |-> patch, textPointer |-> textPointer])
  ELSE IF ~Call("decodeURI", <<substringFrom(text[textPointer + 1], 1)>>).ok
    THEN Throw("Illegal escape in fromText")
  ELSE IF charAt(text[textPointer + 1], 0) \in {<<45>>, <<43>>, <<32>>}
    THEN fromTextBody(text, textPointer + 1,
           [patch EXCEPT !.diffs = Append(@,
              <<IF charAt(text[textPointer + 1], 0) = <<45>> THEN DIFF_DELETE
                ELSE IF charAt(text[textPointer + 1], 0) = <<43>> THEN DIFF_INSERT
                ELSE DIFF_EQUAL,
                Call("decodeURI", <<substringFrom(text[textPointer + 1], 1)>>).val>>)])
  ELSE IF charAt(text[textPointer + 1], 0) = <<64>>
    THEN Return([patch |-> patch, textPointer |-> textPointer])
  ELSE IF charAt(text[textPointer + 1], 0) = <<>>
    THEN fromTextBody(text, textPointer + 1, patch)
  ELSE Throw("Invalid patch mode")

\* The outer while loop of fromText; body is the result of the hunk read
\* last.
RECURSIVE fromTextLoop(_, _, _)
fromTextPush(text, patches, body) ==
  IF ~body.ok THEN body
  ELSE fromTextLoop(text, body.val.textPointer, Append(patches, body.val.patch))

fromTextLoop(text, textPointer, patches) ==
  IF textPointer >= Len(text) THEN Return(patches)
  ELSE IF patchHeader(text[textPointer + 1]) = <<>>
    THEN Throw("Invalid patch string")
  ELSE Call("fromTextPush",
         <<text, patches,
           Call("fromTextBody",
                <<text, textPointer + 1,
                  fromTextHeader(patchHeader(text[textPointer + 1]))>>)>>)

fromText(textline) ==
  IF textline = <<>> THEN Return(<<>>)
  ELSE Call("fromTextLoop", <<split(textline, 10), 0, <<>>>>)

(***************************************************************************)
(* Diff: cleanupEfficiency                                                 *)
(***************************************************************************)
\* Number(b)
boolNumber(b) == IF b THEN 1 ELSE 0

\* The while loop leaving the equality after the duplicate as it is.
cleanupEfficiencyLoop_noInsert(st) ==
  IF st.pointer >= Len(st.diffs) THEN st
  ELSE IF st.diffs[st.pointer + 1][1] = DIFF_EQUAL
  THEN IF Len(st.diffs[st.pointer + 1][2]) < editCost /\ (st.postIns \/ st.postDel)
       THEN Call("cleanupEfficiencyLoop", <<
              [st EXCEPT !.equalities = stackPut(@, st.equalitiesLength, st.pointer),
                         !.equalitiesLength = @ + 1,
                         !.preIns = st.postIns,
                         !.preDel = st.postDel,
                         !.lastEquality = st.diffs[st.pointer + 1][2],
                         !.postIns = FALSE,
                         !.postDel = FALSE,
                         !.pointer = @ + 1]>>)
       ELSE Call("cleanupEfficiencyLoop", <<
              [st EXCEPT !.equalitiesLength = 0,
                         !.lastEquality = NoEquality,
                         !.postIns = FALSE,
                         !.postDel = FALSE,
                         !.pointer = @ + 1]>>)
  ELSE LET postDel == st.postDel \/ st.diffs[st.pointer + 1][1] = DIFF_DELETE
           postIns == st.postIns \/ st.diffs[st.pointer + 1][1] # DIFF_DELETE
       IN  IF st.lastEquality # NoEquality /\
              ( (st.preIns /\ st.preDel /\ postIns /\ postDel) \/
                ( 2 * Len(st.lastEquality) < editCost /\
                  boolNumber(st.preIns) + boolNumber(st.preDel) +
                    boolNumber(postIns) + boolNumber(postDel) = 3 ) )
           THEN Call("cleanupEfficiencyLoop", <<
                  [st EXCEPT
                     !.diffs = splice(@, st.equalities[st.equalitiesLength - 1], 0,
                                      <<<<DIFF_DELETE, st.lastEquality>>>>),
                     !.lastEquality = NoEquality,
                     !.equalitiesLength =
                        IF st.preIns /\ st.preDel THEN 0 ELSE @ - 2,
                     !.postIns = st.preIns /\ st.preDel,
                     !.postDel = st.preIns /\ st.preDel,
                     !.pointer =
                        IF st.preIns /\ st.preDel THEN @ + 1
                        ELSE IF st.equalitiesLength - 2 > 0
                          THEN st.equalities[st.equalitiesLength - 3] + 1
                        ELSE 0,
                     !.changes = TRUE]>>)
           ELSE Call("cleanupEfficiencyLoop", <<
                  [st EXCEPT !.postIns = postIns, !.postDel = postDel,
                             !.pointer = @ + 1]>>)

\* The while loop.  st = [diffs, equalities, equalitiesLength, lastEquality,
\* pointer, preIns, preDel, postIns, postDel, changes].
RECURSIVE cleanupEfficiencyLoop(_)
cleanupEfficiencyLoop(st) ==
  IF st.pointer >= Len(st.diffs) THEN st
  ELSE IF st.diffs[st.pointer + 1][1] = DIFF_EQUAL
  THEN IF Len(st.diffs[st.pointer + 1][2]) < editCost /\ (st.postIns \/ st.postDel)
       THEN cleanupEfficiencyLoop(
              [st EXCEPT !.equalities = stackPut(@, st.equalitiesLength, st.pointer),
                         !.equalitiesLength = @ + 1,
                         !.preIns = st.postIns,
                         !.preDel = st.postDel,
                         !.lastEquality = st.diffs[st.pointer + 1][2],
                         !.postIns = FALSE,
                         !.postDel = FALSE,
                         !.pointer = @ + 1])
       ELSE cleanupEfficiencyLoop(
              [st EXCEPT !.equalitiesLength = 0,
                         !.lastEquality = NoEquality,
                         !.postIns = FALSE,
                         !.postDel = FALSE,
                         !.pointer = @ + 1])
  ELSE LET postDel == st.postDel \/ st.diffs[st.pointer + 1][1] = DIFF_DELETE
           postIns == st.postIns \/ st.diffs[st.pointer + 1][1] # DIFF_DELETE
       IN  IF st.lastEquality # NoEquality /\
              ( (st.preIns /\ st.preDel /\ postIns /\ postDel) \/
                ( 2 * Len(st.lastEquality) < editCost /\
                  boolNumber(st.preIns) + boolNumber(st.preDel) +
                    boolNumber(postIns) + boolNumber(postDel) = 3 ) )
           THEN cleanupEfficiencyLoop(
                  [st EXCEPT
                     !.diffs = [splice(@, st.equalities[st.equalitiesLength - 1], 0,
                                       <<<<DIFF_DELETE, st.lastEquality>>>>)
                                EXCEPT ![st.equalities[st.equalitiesLength - 1] + 2] =
                                         <<DIFF_INSERT, @[2]>>],
                     !.lastEquality = NoEquality,
                     !.equalitiesLength =
                        IF st.preIns /\ st.preDel THEN 0 ELSE @ - 2,
                     !.postIns = st.preIns /\ st.preDel,
                     !.postDel = st.preIns /\ st.preDel,
                     !.pointer =
                        IF st.preIns /\ st.preDel THEN @ + 1
                        ELSE IF st.equalitiesLength - 2 > 0
                          THEN st.equalities[st.equalitiesLength - 3] + 1
                        ELSE 0,
                     !.changes = TRUE])
           ELSE cleanupEfficiencyLoop(
                  [st EXCEPT !.postIns = postIns, !.postDel = postDel,
                             !.pointer = @ + 1])

cleanupEfficiencyMerge(st) ==
  IF st.changes THEN Call("cleanupMerge", <<st.diffs>>) ELSE st.diffs

cleanupEfficiency(diffs) ==
  Call("cleanupEfficiencyMerge", <<Call("cleanupEfficiencyLoop", <<
     [diffs |-> diffs, equalities |-> <<>>, equalitiesLength |-> 0,
      lastEquality |-> NoEquality, pointer |-> 0, preIns |-> FALSE,
      preDel |-> FALSE, postIns |-> FALSE, postDel |-> FALSE,
      changes |-> FALSE]>>)>>)

(***************************************************************************)
(* Diff: xIndex, levenshtein                                               *)
(***************************************************************************)
\* The loop of xIndex taking a deletion for an equality.
xIndexLoop_noDelete(diffs, loc, x, lastChars1, lastChars2) ==
  IF x >= Len(diffs) THEN lastChars2 + (loc - lastChars1)
  ELSE IF lastChars1 + (IF diffs[x + 1][1] # DIFF_INSERT
                        THEN Len(diffs[x + 1][2]) ELSE 0) > loc
  THEN lastChars2 + (loc - lastChars1)
  ELSE Call("xIndexLoop",
         <<diffs, loc, x + 1,
           lastChars1 + (IF diffs[x + 1][1] # DIFF_INSERT
                         THEN Len(diffs[x + 1][2]) ELSE 0),
           lastChars2 + (IF diffs[x + 1][1] # DIFF_DELETE
                         THEN Len(diffs[x + 1][2]) ELSE 0)>>)

\* The for loop of xIndex and the return that follows it; chars1 and
\* chars2 equal lastChars1 and lastChars2 at the head of every iteration.
RECURSIVE xIndexLoop(_, _, _, _, _)
xIndexLoop(diffs, loc, x, lastChars1, lastChars2) ==
  IF x >= Len(diffs) THEN lastChars2 + (loc - lastChars1)
  ELSE IF lastChars1 + (IF diffs[x + 1][1] # DIFF_INSERT
                        THEN Len(diffs[x + 1][2]) ELSE 0) > loc
  THEN IF diffs[x + 1][1] = DIFF_DELETE THEN lastChars2
       ELSE lastChars2 + (loc - lastChars1)
  ELSE xIndexLoop(diffs, loc, x + 1,
         lastChars1 + (IF diffs[x + 1][1] # DIFF_INSERT
                       THEN Len(diffs[x + 1][2]) ELSE 0),
         lastChars2 + (IF diffs[x + 1][1] # DIFF_DELETE
                       THEN Len(diffs[x + 1][2]) ELSE 0))

xIndex(diffs, loc) == Call("xIndexLoop", <<diffs, loc, 0, 0, 0>>)

\* The for loop of levenshtein and the statement that follows it.
RECURSIVE levenshteinLoop(_, _, _, _, _)
levenshteinLoop(diffs, x, levenshtein, insertions, deletions) ==
  IF x >= Len(diffs) THEN levenshtein + Max(insertions, deletions)
  ELSE IF diffs[x + 1][1] = DIFF_INSERT
  THEN levenshteinLoop(diffs, x + 1, levenshtein,
                       insertions + Len(diffs[x + 1][2]), deletions)
  ELSE IF diffs[x + 1][1] = DIFF_DELETE
  THEN levenshteinLoop(diffs, x + 1, levenshtein, insertions,
                       deletions + Len(diffs[x + 1][2]))
  ELSE levenshteinLoop(diffs, x + 1, levenshtein + Max(insertions, deletions),
                       0, 0)

levenshtein(diffs) == Call("levenshteinLoop", <<diffs, 0, 0, 0, 0>>)

(***************************************************************************)
(* Match.  The bitwise operators of JavaScript work on 32-bit integers and *)
(* take a shift count modulo 32.  A 32-bit integer is written as the set   *)
(* of the positions 0..31 of its one bits.                                 *)
(***************************************************************************)
\* a & b, a | b, a << n
BitAnd(a, b) == a \cap b
BitOr(a, b) == a \cup b
Shl(a, n) == {i + (n % 32) : i \in a} \cap (0..31)
\* (1 << d) - 1, read as a 32-bit integer
LowBits(d) == 0..((d % 32) - 1)

\* a[i] of a sparse array or hash used as a bitwise operand: a hole or a
\* missing key reads undefined, which the operator takes as 0.
bitsAt(a, i) == IF i \in DOMAIN a THEN a[i] ELSE {}
arraySet(a, i, v) == [k \in (DOMAIN a) \cup {i} |-> IF k = i THEN v ELSE a[k]]

\* Match.alphabet: the second for loop (the first sets every entry to 0).
RECURSIVE alphabetLoop(_, _, _)
alphabetLoop(pattern, i, s) ==
  IF i >= Len(pattern) THEN s
  ELSE alphabetLoop(pattern, i + 1,
         arraySet(s, pattern[i + 1],
                  BitOr(bitsAt(s, pattern[i + 1]), Shl({0}, Len(pattern) - i - 1))))

alphabet(pattern) == Call("alphabetLoop", <<pattern, 0, <<>>>>)

\* A score is the fraction <<numerator, denominator>> with a positive
\* denominator; the source computes it in floating point.
scoreLeq(a, b) == a[1] * b[2] <= b[1] * a[2]
scoreMin(a, b) == IF scoreLeq(a, b) THEN a ELSE b
ScoreDen == 10

\* bitapScore without the proximity term.
bitapScore_noProximity(e, x, loc, pattern) == <<e, Len(pattern)>>

\* bitapScore(e, x), a closure over loc and pattern.
bitapScore(e, x, loc, pattern) ==
  IF distance = 0
  THEN IF Abs(loc - x) # 0 THEN <<1, 1>> ELSE <<e, Len(pattern)>>
  ELSE <<e * distance + Abs(loc - x) * Len(pattern), Len(pattern) * distance>>

\* The speedup before the bit arrays are set up: the score threshold after
\* looking for an exact match on either side of loc.
bitapThreshold2(text, pattern, loc, scoreThreshold, bestLoc) ==
  IF bestLoc # -1
  THEN scoreMin(bitapScore(0, bestLoc, loc, pattern), scoreThreshold)
  ELSE scoreThreshold

bitapThreshold1(text, pattern, loc, bestLoc) ==
  IF bestLoc # -1
  THEN bitapThreshold2(text, pattern, loc,
         scoreMin(bitapScore(0, bestLoc, loc, pattern), <<threshNum, ScoreDen>>),
         lastIndexOf(text, pattern, loc + Len(pattern)))
  ELSE <<threshNum, ScoreDen>>

\* The binary search never straying from loc.
bitapBin_zero(pattern, loc, d, scoreThreshold, binMin, binMid, binMax) == 0

\* The binary search of one error level d: returns binMid.
RECURSIVE bitapBin(_, _, _, _, _, _, _)
bitapBin(pattern, loc, d, scoreThreshold, binMin, binMid, binMax) ==
  IF binMin >= binMid THEN binMid
  ELSE IF scoreLeq(bitapScore(d, loc + binMid, loc, pattern), scoreThreshold)
  THEN bitapBin(pattern, loc, d, scoreThreshold, binMid,
                (binMax - binMid) \div 2 + binMid, binMax)
  ELSE bitapBin(pattern, loc, d, scoreThreshold, binMin,
                (binMid - binMin) \div 2 + binMin, binMid)

\* rd[j] of the inner for loop.
bitapRd(d, j, charMatch, rd, lastRd) ==
  IF d = 0
  THEN BitAnd(BitOr(Shl(bitsAt(rd, j + 1), 1), {0}), charMatch)
  ELSE BitOr(BitOr(BitAnd(BitOr(Shl(bitsAt(rd, j + 1), 1), {0}), charMatch),
                   BitOr(Shl(BitOr(bitsAt(lastRd, j + 1), bitsAt(lastRd, j)), 1), {0})),
             bitsAt(lastRd, j + 1))

\* The inner for loop of one error level.  c = [text, pattern, loc, s,
\* matchmask, d, lastRd]; v = [start, rd, bestLoc, scoreThreshold].
RECURSIVE bitapScan(_, _, _)
bitapScanTest(c, j, v) ==
  IF BitAnd(v.rd[j], c.matchmask) # {} /\
     scoreLeq(bitapScore(c.d, j - 1, c.loc, c.pattern), v.scoreThreshold)
  THEN IF j - 1 > c.loc
       THEN bitapScan(c, j - 1,
              [v EXCEPT !.scoreThreshold = bitapScore(c.d, j - 1, c.loc, c.pattern),
                        !.bestLoc = j - 1,
                        !.start = Max(1, 2 * c.loc - (j - 1))])
       ELSE [v EXCEPT !.scoreThreshold = bitapScore(c.d, j - 1, c.loc, c.pattern),
                      !.bestLoc = j - 1]
  ELSE bitapScan(c, j - 1, v)

bitapScan(c, j, v) ==
  IF j < v.start THEN v
  ELSE bitapScanTest(c, j,
         [v EXCEPT !.rd = arraySet(@, j,
            bitapRd(c.d, j, bitsAt(c.s, IF j - 1 < Len(c.text) THEN c.text[j] ELSE -1),
                    @, c.lastRd))])

\* The for loop over the error levels d.  c = [text, pattern, loc, s,
\* matchmask]; st = [d, binMax, lastRd, bestLoc, scoreThreshold].
RECURSIVE bitapLevels(_, _)
bitapLevelEnd(c, st, binMid, v) ==
  IF ~scoreLeq(bitapScore(st.d + 1, c.loc, c.loc, c.pattern), v.scoreThreshold)
  THEN Return(v.bestLoc)
  ELSE bitapLevels(c, [d |-> st.d + 1, binMax |-> binMid, lastRd |-> v.rd,
                       bestLoc |-> v.bestLoc, scoreThreshold |-> v.scoreThreshold])

bitapLevel(c, st, binMid, finish) ==
  bitapLevelEnd(c, st, binMid,
    bitapScan([text |-> c.text, pattern |-> c.pattern, loc |-> c.loc, s |-> c.s,
               matchmask |-> c.matchmask, d |-> st.d, lastRd |-> st.lastRd],
              finish,
              [start |-> Max(1, c.loc - binMid + 1),
               rd |-> (finish + 1) :> LowBits(st.d),
               bestLoc |-> st.bestLoc, scoreThreshold |-> st.scoreThreshold]))

\* finish of one error level; Array(finish + 2) throws RangeError when its
\* argument is negative.
bitapFinish(c, st, binMid) ==
  IF Min(c.loc + binMid, Len(c.text)) + Len(c.pattern) + 2 < 0
  THEN Throw("RangeError: Invalid array length")
  ELSE bitapLevel(c, st, binMid,
                  Min(c.loc + binMid, Len(c.text)) + Len(c.pattern))

bitapLevels(c, st) ==
  IF st.d >= Len(c.pattern) THEN Return(st.bestLoc)
  ELSE bitapFinish(c, st,
         bitapBin(c.pattern, c.loc, st.d, st.scoreThreshold, 0, st.binMax, st.binMax))

\* Match.bitap
bitap(text, pattern, loc) ==
  IF Len(pattern) > maxBits THEN Throw("Pattern too long for this browser.")
  ELSE Call("bitapLevels", <<
         [text |-> text, pattern |-> pattern, loc |-> loc,
          s |-> Call("alphabet", <<pattern>>),
          matchmask |-> Shl({0}, Len(pattern) - 1)],
         [d |-> 0, binMax |-> Len(pattern) + Len(text), lastRd |-> <<>>,
          bestLoc |-> -1,
          scoreThreshold |-> bitapThreshold1(text, pattern, loc,
                                             indexOf(text, pattern, loc))]>>)

\* Match.main without the clamping of loc.
match_main_noClamp(text, pattern, loc) ==
  IF text \in {JsNull, JsUndefined} \/ pattern \in {JsNull, JsUndefined}
  THEN Throw("Null input. (main)")
  ELSE IF text = pattern THEN Return(0)
  ELSE IF Len(text) = 0 THEN Return(-1)
  ELSE IF substring(text, loc, loc + Len(pattern)) = pattern THEN Return(loc)
  ELSE Call("bitap", <<text, pattern, loc>>)

\* Match.main
match_main(text, pattern, loc) ==
  IF text \in {JsNull, JsUndefined} \/ pattern \in {JsNull, JsUndefined}
  THEN Throw("Null input. (main)")
  ELSE IF text = pattern THEN Return(0)
  ELSE IF Len(text) = 0 THEN Return(-1)
  ELSE IF substring(text, Clamp(loc, Len(text)), Clamp(loc, Len(text)) + Len(pattern))
          = pattern
  THEN Return(Clamp(loc, Len(text)))
  ELSE Call("bitap", <<text, pattern, Clamp(loc, Len(text))>>)

(***************************************************************************)
(* Patch: addContext, make                                                 *)
(***************************************************************************)
\* The while loop of addContext without the test of the pattern's length.
addContextLoop_uncapped(patch, text, pattern, padding) ==
  IF indexOf(text, pattern, 0) # lastIndexOf(text, pattern, Len(text))
  THEN Call("addContextLoop",
         <<patch, text,
           substring(text, patch.start2[1] - (padding + margin),
                     patch.start2[1] + patch.length1 + (padding + margin)),
           padding + margin>>)
  ELSE padding

\* The while loop of addContext: the padding reached when the pattern is
\* unique in text or as long as allowed.
RECURSIVE addContextLoop(_, _, _, _)
addContextLoop(patch, text, pattern, padding) ==
  IF indexOf(text, pattern, 0) # lastIndexOf(text, pattern, Len(text)) /\
     Len(pattern) < maxBits - margin - margin
  THEN addContextLoop(patch, text,
         substring(text, patch.start2[1] - (padding + margin),
                   patch.start2[1] + patch.length1 + (padding + margin)),
         padding + margin)
  ELSE padding

\* The rest of addContext, given the padding (after "one chunk for good
\* luck"), the prefix and the suffix.
addContextGrow(patch, prefix, suffix) ==
  [diffs |-> (IF prefix # <<>> THEN <<<<DIFF_EQUAL, prefix>>>> ELSE <<>>)
               \o patch.diffs
               \o (IF suffix # <<>> THEN <<<<DIFF_EQUAL, suffix>>>> ELSE <<>>),
   start1 |-> Num(patch.start1[1] - Len(prefix)),
   start2 |-> Num(patch.start2[1] - Len(prefix)),
   length1 |-> patch.length1 + Len(prefix) + Len(suffix),
   length2 |-> patch.length2 + Len(prefix) + Len(suffix)]

addContextPad(patch, text, padding) ==
  addContextGrow(patch,
    substring(text, patch.start2[1] - padding, patch.start2[1]),
    substring(text, patch.start2[1] + patch.length1,
              patch.start2[1] + patch.length1 + padding))

\* Patch.addContext: the hunk as the call leaves it, or the error thrown.
addContext(patch, text) ==
  IF Len(text) = 0 THEN Return(patch)
  ELSE IF patch.start1 = Null \/ patch.start2 = Null
  THEN Throw("patch not initialized")
  ELSE Return(addContextPad(patch, text,
         Call("addContextLoop",
              <<patch, text,
                substring(text, patch.start2[1], patch.start2[1] + patch.length1),
                0>>) + margin))

\* The for loop of make over diffs.  st = [patches, patch, charCount1,
\* charCount2, prepatchText, postpatchText]; patchDiffLength is the length
\* of patch.diffs.
RECURSIVE makeLoop(_, _, _)
\* "A new patch starts here."
makeStart(st, diffType) ==
  IF Len(st.patch.diffs) = 0 /\ diffType # DIFF_EQUAL
  THEN [st EXCEPT !.patch.start1 = Num(st.charCount1),
                  !.patch.start2 = Num(st.charCount2)]
  ELSE st

\* "Update the current character count."
makeCount(st, diffType, diffText) ==
  [st EXCEPT !.charCount1 = IF diffType # DIFF_INSERT THEN @ + Len(diffText) ELSE @,
             !.charCount2 = IF diffType # DIFF_DELETE THEN @ + Len(diffText) ELSE @]

\* "Time for a new patch" without the rolling context.
makeClose_noRoll(st, ctx) ==
  [st EXCEPT !.patches = Append(@, ctx.val),
             !.patch = newPatchObj]

\* "Time for a new patch": ctx is the result of addContext.
makeClose(st, ctx) ==
  [st EXCEPT !.patches = Append(@, ctx.val),
             !.patch = newPatchObj,
             !.prepatchText = st.postpatchText,
             !.charCount1 = st.charCount2]

\* The switch on diffType keeping equalities of up to 2 * margin + 1
\* characters inside a patch.
makeSwitch_keepLonger(diffs, x, st, diffType, diffText) ==
  IF diffType = DIFF_INSERT
  THEN Call("makeLoop", <<diffs, x + 1, makeCount(
         [st EXCEPT !.patch.diffs = Append(@, diffs[x + 1]),
                    !.patch.length2 = @ + Len(diffText),
                    !.postpatchText = substring(@, 0, st.charCount2) \o diffText
                                        \o substringFrom(@, st.charCount2)],
         diffType, diffText)>>)
  ELSE IF diffType = DIFF_DELETE
  THEN Call("makeLoop", <<diffs, x + 1, makeCount(
         [st EXCEPT !.patch.diffs = Append(@, diffs[x + 1]),
                    !.patch.length1 = @ + Len(diffText),
                    !.postpatchText = substring(@, 0, st.charCount2)
                        \o substringFrom(@, st.charCount2 + Len(diffText))],
         diffType, diffText)>>)
  ELSE IF Len(diffText) <= 2 * margin + 1 /\ Len(st.patch.diffs) # 0 /\
          Len(diffs) # x + 1
  THEN Call("makeLoop", <<diffs, x + 1, makeCount(
         [st EXCEPT !.patch.diffs = Append(@, diffs[x + 1]),
                    !.patch.length1 = @ + Len(diffText),
                    !.patch.length2 = @ + Len(diffText)],
         diffType, diffText)>>)
  ELSE IF Len(diffText) >= 2 * margin /\ Len(st.patch.diffs) # 0
  THEN IF ~Call("addContext", <<st.patch, st.prepatchText>>).ok
       THEN Call("addContext", <<st.patch, st.prepatchText>>)
       ELSE Call("makeLoop", <<diffs, x + 1, makeCount(
              makeClose(st, Call("addContext", <<st.patch, st.prepatchText>>)),
              diffType, diffText)>>)
  ELSE Call("makeLoop", <<diffs, x + 1, makeCount(st, diffType, diffText)>>)

\* The switch on diffType.
makeSwitch(diffs, x, st, diffType, diffText) ==
  IF diffType = DIFF_INSERT
  THEN makeLoop(diffs, x + 1, makeCount(
         [st EXCEPT !.patch.diffs = Append(@, diffs[x + 1]),
                    !.patch.length2 = @ + Len(diffText),
                    !.postpatchText = substring(@, 0, st.charCount2) \o diffText
                                        \o substringFrom(@, st.charCount2)],
         diffType, diffText))
  ELSE IF diffType = DIFF_DELETE
  THEN makeLoop(diffs, x + 1, makeCount(
         [st EXCEPT !.patch.diffs = Append(@, diffs[x + 1]),
                    !.patch.length1 = @ + Len(diffText),
                    !.postpatchText = substring(@, 0, st.charCount2)
                        \o substringFrom(@, st.charCount2 + Len(diffText))],
         diffType, diffText))
  ELSE IF Len(diffText) <= 2 * margin /\ Len(st.patch.diffs) # 0 /\
          Len(diffs) # x + 1
  THEN makeLoop(diffs, x + 1, makeCount(
         [st EXCEPT !.patch.diffs = Append(@, diffs[x + 1]),
                    !.patch.length1 = @ + Len(diffText),
                    !.patch.length2 = @ + Len(diffText)],
         diffType, diffText))
  ELSE IF Len(diffText) >= 2 * margin /\ Len(st.patch.diffs) # 0
  THEN IF ~Call("addContext", <<st.patch, st.prepatchText>>).ok
       THEN Call("addContext", <<st.patch, st.prepatchText>>)
       ELSE makeLoop(diffs, x + 1, makeCount(
              makeClose(st, Call("addContext", <<st.patch, st.prepatchText>>)),
              diffType, diffText))
  ELSE makeLoop(diffs, x + 1, makeCount(st, diffType, diffText))

makeLoop(diffs, x, st) ==
  IF x >= Len(diffs)
  THEN IF Len(st.patch.diffs) # 0
       THEN IF ~Call("addContext", <<st.patch, st.prepatchText>>).ok
            THEN Call("addContext", <<st.patch, st.prepatchText>>)
            ELSE Return(Append(st.patches,
                               Call("addContext", <<st.patch, st.prepatchText>>).val))
       ELSE Return(st.patches)
  ELSE makeSwitch(diffs, x, makeStart(st, diffs[x + 1][1]),
                  diffs[x + 1][1], diffs[x + 1][2])

\* Patch.make, from "if (diffs.length === 0)" on: methods 2 to 4 of the
\* call, with text1 and diffs known.
makePatches(text1, diffs) ==
  IF Len(diffs) = 0 THEN Return(<<>>)
  ELSE Call("makeLoop", <<diffs, 0,
         [patches |-> <<>>, patch |-> newPatchObj, charCount1 |-> 0,
          charCount2 |-> 0, prepatchText |-> text1, postpatchText |-> text1]>>)

\* The cleanup of method 1.
makeCleanup(diffs) ==
  IF Len(diffs) > 2
  THEN Call("cleanupEfficiency", <<Call("cleanupSemantic", <<diffs>>)>>)
  ELSE diffs

\* Patch.make after its call of Diff.main: the cleanups and the hunks.
makeRest(text1, diffs) ==
  Call("makePatches", <<text1, Call("makeCleanup", <<diffs>>)>>)

\* Patch.make(text1, text2), method 1 of the call; ticks is the clock of
\* the call of Diff.main.
make(text1, text2, ticks) ==
  Call("makeRest", <<text1, Call("main", <<text1, text2, TRUE, ticks>>).diffs>>)

(***************************************************************************)
(* Patch: deepCopy, addPadding, splitMax.  These work on objects by        *)
(* reference: h is the heap, a sequence whose elements are PatchObj values *)
(* and lists of hunks; a list of hunks is a sequence of indices of h, and  *)
(* the argument patches is the index of such a list.  The diffs array and  *)
(* the tuples inside a PatchObj are written by value: deepCopy builds its  *)
(* copies from fresh arrays and tuples, and splitMax moves a tuple from    *)
(* one PatchObj to another only when the first has let go of it.           *)
(***************************************************************************)
\* The for loop of deepCopy and the return: every copy is a new object at
\* the end of h, and so is the list patchesCopy.
RECURSIVE deepCopyDiffs(_)
deepCopyDiffs(diffs) ==
  IF diffs = <<>> THEN <<>>
  ELSE <<<<Head(diffs)[1], Head(diffs)[2]>>>> \o deepCopyDiffs(Tail(diffs))

RECURSIVE deepCopyLoop(_, _, _, _)
deepCopyLoop(h, patches, x, patchesCopy) ==
  IF x >= Len(h[patches])
  THEN [h |-> Append(h, patchesCopy), patches |-> Len(h) + 1]
  ELSE deepCopyLoop(
         Append(h, [diffs |-> deepCopyDiffs(h[h[patches][x + 1]].diffs),
                    start1 |-> h[h[patches][x + 1]].start1,
                    start2 |-> h[h[patches][x + 1]].start2,
                    length1 |-> h[h[patches][x + 1]].length1,
                    length2 |-> h[h[patches][x + 1]].length2]),
         patches, x + 1, Append(patchesCopy, Len(h) + 1))

\* A copy that is the list itself.
deepCopy_same(h, patches) == [h |-> h, patches |-> patches]

\* Patch.deepCopy: the heap afterwards and the index of the list returned.
deepCopy(h, patches) == Call("deepCopyLoop", <<h, patches, 0, <<>>>>)

\* nullPadding of addPadding: the characters 1 .. margin.
nullPaddingString == [x \in 1..margin |-> x]

\* "Bump all the patches forward."
RECURSIVE addPaddingBump(_, _, _)
addPaddingBump(h, patches, x) ==
  IF x >= Len(h[patches]) THEN h
  ELSE addPaddingBump(
         [h EXCEPT ![h[patches][x + 1]].start1 = Num(orZero(@) + margin),
                   ![h[patches][x + 1]].start2 = Num(orZero(@) + margin)],
         patches, x + 1)

\* "Add some padding on start of first diff": the PatchObj afterwards.
addPaddingFirst(patch) ==
  IF Len(patch.diffs) = 0 \/ patch.diffs[1][1] # DIFF_EQUAL
  THEN [diffs |-> <<<<DIFF_EQUAL, nullPaddingString>>>> \o patch.diffs,
        start1 |-> Num(orZero(patch.start1) - margin),
        start2 |-> Num(orZero(patch.start2) - margin),
        length1 |-> patch.length1 + margin,
        length2 |-> patch.length2 + margin]
  ELSE IF margin > Len(patch.diffs[1][2])
  THEN [diffs |-> [patch.diffs EXCEPT ![1] =
                     <<@[1], substringFrom(nullPaddingString, Len(@[2])) \o @[2]>>],
        start1 |-> Num(orZero(patch.start1) - (margin - Len(patch.diffs[1][2]))),
        start2 |-> Num(orZero(patch.start2) - (margin - Len(patch.diffs[1][2]))),
        length1 |-> patch.length1 + (margin - Len(patch.diffs[1][2])),
        length2 |-> patch.length2 + (margin - Len(patch.diffs[1][2]))]
  ELSE patch

\* "Add some padding on end of last diff": the PatchObj afterwards.
addPaddingLast(patch) ==
  IF Len(patch.diffs) = 0 \/ patch.diffs[Len(patch.diffs)][1] # DIFF_EQUAL
  THEN [patch EXCEPT !.diffs = Append(@, <<DIFF_EQUAL, nullPaddingString>>),
                     !.length1 = @ + margin,
                     !.length2 = @ + margin]
  ELSE IF margin > Len(patch.diffs[Len(patch.diffs)][2])
  THEN [patch EXCEPT
          !.diffs[Len(patch.diffs)] =
             <<@[1], @[2] \o substring(nullPaddingString, 0, margin - Len(@[2]))>>,
          !.length1 = @ + (margin - Len(patch.diffs[Len(patch.diffs)][2])),
          !.length2 = @ + (margin - Len(patch.diffs[Len(patch.diffs)][2]))]
  ELSE patch

addPaddingEnds2(h, patches) ==
  [h EXCEPT ![h[patches][Len(h[patches])]] = addPaddingLast(@)]

addPaddingEnds(h, patches) ==
  addPaddingEnds2([h EXCEPT ![h[patches][1]] = addPaddingFirst(@)], patches)

\* Patch.addPadding on a list that is not empty: the heap afterwards (the
\* string returned is nullPaddingString).
addPadding(h, patches) ==
  addPaddingEnds(Call("addPaddingBump", <<h, patches, 0>>), patches)

\* The inner while loop of splitMax, filling one new patch from the head
\* of bigpatch.diffs.  v = [bigdiffs, patch, start1, start2, empty].
RECURSIVE splitMaxFill(_)
splitMaxFill(v) ==
  IF ~(Len(v.bigdiffs) # 0 /\ v.patch.length1 < maxBits - margin) THEN v
  ELSE IF v.bigdiffs[1][1] = DIFF_INSERT
  THEN splitMaxFill(
         [v EXCEPT !.patch.length2 = @ + Len(v.bigdiffs[1][2]),
                   !.start2 = @ + Len(v.bigdiffs[1][2]),
                   !.patch.diffs = Append(@, v.bigdiffs[1]),
                   !.bigdiffs = Tail(@),
                   !.empty = FALSE])
  ELSE IF v.bigdiffs[1][1] = DIFF_DELETE /\ Len(v.patch.diffs) = 1 /\
          v.patch.diffs[1][1] = DIFF_EQUAL /\
          Len(v.bigdiffs[1][2]) > 2 * maxBits
  THEN splitMaxFill(
         [v EXCEPT !.patch.length1 = @ + Len(v.bigdiffs[1][2]),
                   !.start1 = @ + Len(v.bigdiffs[1][2]),
                   !.empty = FALSE,
                   !.patch.diffs = Append(@, v.bigdiffs[1]),
                   !.bigdiffs = Tail(@)])
  ELSE splitMaxFill(
         [v EXCEPT
            !.patch.length1 =
               @ + Len(substring(v.bigdiffs[1][2], 0, maxBits - @ - margin)),
            !.start1 =
               @ + Len(substring(v.bigdiffs[1][2], 0,
                                 maxBits - v.patch.length1 - margin)),
            !.patch.length2 =
               IF v.bigdiffs[1][1] = DIFF_EQUAL
               THEN @ + Len(substring(v.bigdiffs[1][2], 0,
                                      maxBits - v.patch.length1 - margin))
               ELSE @,
            !.start2 =
               IF v.bigdiffs[1][1] = DIFF_EQUAL
               THEN @ + Len(substring(v.bigdiffs[1][2], 0,
                                      maxBits - v.patch.length1 - margin))
               ELSE @,
            !.empty = @ /\ v.bigdiffs[1][1] = DIFF_EQUAL,
            !.patch.diffs =
               Append(@, <<v.bigdiffs[1][1],
                           substring(v.bigdiffs[1][2], 0,
                                     maxBits - v.patch.length1 - margin)>>),
            !.bigdiffs =
               IF substring(v.bigdiffs[1][2], 0, maxBits - v.patch.length1 - margin)
                    = v.bigdiffs[1][2]
               THEN Tail(@)
               ELSE [@ EXCEPT ![1] =
                       <<@[1], substringFrom(@[2],
                            Len(substring(v.bigdiffs[1][2], 0,
                                          maxBits - v.patch.length1 - margin)))>>]])

\* The end context appended without extending the lengths.
splitMaxPost_noLength(patch, postcontext) ==
  IF postcontext = <<>> THEN patch
  ELSE IF Len(patch.diffs) # 0 /\ patch.diffs[Len(patch.diffs)][1] = DIFF_EQUAL
  THEN [patch EXCEPT !.diffs[Len(patch.diffs)] = <<@[1], @[2] \o postcontext>>]
  ELSE [patch EXCEPT !.diffs = Append(@, <<DIFF_EQUAL, postcontext>>)]

\* "Append the end context for this patch."
splitMaxPost(patch, postcontext) ==
  IF postcontext = <<>> THEN patch
  ELSE IF Len(patch.diffs) # 0 /\ patch.diffs[Len(patch.diffs)][1] = DIFF_EQUAL
  THEN [patch EXCEPT !.length1 = @ + Len(postcontext),
                     !.length2 = @ + Len(postcontext),
                     !.diffs[Len(patch.diffs)] = <<@[1], @[2] \o postcontext>>]
  ELSE [patch EXCEPT !.length1 = @ + Len(postcontext),
                     !.length2 = @ + Len(postcontext),
                     !.diffs = Append(@, <<DIFF_EQUAL, postcontext>>)]

\* The while loop over bigpatch.diffs.  st = [h, patches, x, big, start1,
\* start2, precontext]; big is the index of bigpatch in h.
\* The end of one iteration putting the new hunk at the front of the list.
splitMaxEmit_front(st, v) ==
    [h |-> IF v.empty THEN [st.h EXCEPT ![st.big].diffs = v.bigdiffs]
           ELSE Append([st.h EXCEPT ![st.big].diffs = v.bigdiffs,
                                    ![st.patches] =
                                       splice(@, 0, 0, <<Len(st.h) + 1>>)],
                       splitMaxPost(v.patch,
                         substring(diff_text1(v.bigdiffs), 0, margin))),
     patches |-> st.patches,
     x |-> IF v.empty THEN st.x ELSE st.x + 1,
     big |-> st.big,
     start1 |-> v.start1,
     start2 |-> v.start2,
     precontext |-> substringFrom(diff_text2(v.patch.diffs),
                                  Len(diff_text2(v.patch.diffs)) - margin)]

\* The end of one iteration: v is the result of the inner loop.
splitMaxEmit(st, v) ==
    [h |-> IF v.empty THEN [st.h EXCEPT ![st.big].diffs = v.bigdiffs]
           ELSE Append([st.h EXCEPT ![st.big].diffs = v.bigdiffs,
                                    ![st.patches] =
                                       splice(@, st.x + 1, 0, <<Len(st.h) + 1>>)],
                       splitMaxPost(v.patch,
                         substring(diff_text1(v.bigdiffs), 0, margin))),
     patches |-> st.patches,
     x |-> IF v.empty THEN st.x ELSE st.x + 1,
     big |-> st.big,
     start1 |-> v.start1,
     start2 |-> v.start2,
     precontext |-> substringFrom(diff_text2(v.patch.diffs),
                                  Len(diff_text2(v.patch.diffs)) - margin)]

\* One iteration of the while loop over bigpatch.diffs.
splitMaxPass(st) ==
  splitMaxEmit(st,
         splitMaxFill(
           [bigdiffs |-> st.h[st.big].diffs,
            patch |-> [diffs |-> IF st.precontext # <<>>
                                 THEN <<<<DIFF_EQUAL, st.precontext>>>> ELSE <<>>,
                       start1 |-> Num(st.start1 - Len(st.precontext)),
                       start2 |-> Num(st.start2 - Len(st.precontext)),
                       length1 |-> Len(st.precontext),
                       length2 |-> Len(st.precontext)],
            start1 |-> st.start1,
            start2 |-> st.start2,
            empty |-> TRUE]))

RECURSIVE splitMaxWhile(_)
splitMaxWhile(st) ==
  IF Len(st.h[st.big].diffs) = 0 THEN st
  ELSE splitMaxWhile(splitMaxPass(st))

\* The for loop of splitMax over patches.
RECURSIVE splitMaxLoop(_, _, _)
splitMaxNext(st) == splitMaxLoop(st.h, st.patches, st.x + 1)

splitMaxLoop(h, patches, x) ==
  IF x >= Len(h[patches]) THEN h
  ELSE IF h[h[patches][x + 1]].length1 <= maxBits
  THEN splitMaxLoop(h, patches, x + 1)
  ELSE splitMaxNext(
         splitMaxWhile(
           [h |-> [h EXCEPT ![patches] = splice(@, x, 1, <<>>)],
            patches |-> patches,
            x |-> x - 1,
            big |-> h[patches][x + 1],
            start1 |-> orZero(h[h[patches][x + 1]].start1),
            start2 |-> orZero(h[h[patches][x + 1]].start2),
            precontext |-> <<>>]))

\* Patch.splitMax: the heap afterwards.
splitMax(h, patches) == Call("splitMaxLoop", <<h, patches, 0>>)

(***************************************************************************)
(* Patch: apply                                                            *)
(***************************************************************************)
\* The heap of a caller holding the list patches of PatchObj values: the
\* list is object 1 and its hunks are the objects 2, 3, ...
callerHeap(patches) == <<[k \in 1..Len(patches) |-> k + 1]>> \o patches

\* The PatchObj values of the list patches of heap h.
hunksOf(h, patches) == [k \in 1..Len(h[patches]) |-> h[h[patches][k]]]

\* The start of apply on a list that is not empty: deepCopy, addPadding,
\* splitMax.  Returns the heap and the index of the local list patches.
applySetup2(c) ==
  [h |-> Call("splitMax", <<Call("addPadding", <<c.h, c.patches>>), c.patches>>),
   patches |-> c.patches]

applySetup(h, patches) == applySetup2(Call("deepCopy", <<h, patches>>))

\* startLoc and endLoc of one hunk: the calls of Match.main.  Returns
\* [startLoc, endLoc] or the error thrown.
applyLocateEnd(startLoc, end) ==
  IF ~end.ok THEN end
  ELSE IF end.val = -1 \/ startLoc >= end.val
  THEN Return([startLoc |-> -1, endLoc |-> end.val])
  ELSE Return([startLoc |-> startLoc, endLoc |-> end.val])

applyLocateBig(text, text1, expectedLoc, start) ==
  IF ~start.ok THEN start
  ELSE IF start.val = -1 THEN Return([startLoc |-> -1, endLoc |-> -1])
  ELSE applyLocateEnd(start.val,
         Call("match_main",
              <<text, substringFrom(text1, Len(text1) - maxBits),
                expectedLoc + Len(text1) - maxBits>>))

applyLocateSmall(start) ==
  IF ~start.ok THEN start
  ELSE Return([startLoc |-> start.val, endLoc |-> -1])

\* applyLocate handing the whole of text1 to Match.main.
applyLocate_whole(text, text1, expectedLoc) ==
  applyLocateSmall(Call("match_main", <<text, text1, expectedLoc>>))

applyLocate(text, text1, expectedLoc) ==
  IF Len(text1) > maxBits
  THEN applyLocateBig(text, text1, expectedLoc,
         Call("match_main", <<text, substring(text1, 0, maxBits), expectedLoc>>))
  ELSE applyLocateSmall(Call("match_main", <<text, text1, expectedLoc>>))

\* The for loop over patch.diffs of an imperfect match; diffs maps the
\* indices of text1 to those of text2.
RECURSIVE applyMods(_, _, _, _, _, _)
applyMods(pdiffs, diffs, y, index1, text, startLoc) ==
  IF y >= Len(pdiffs) THEN text
  ELSE IF pdiffs[y + 1][1] = DIFF_INSERT
  THEN applyMods(pdiffs, diffs, y + 1, index1 + Len(pdiffs[y + 1][2]),
         substring(text, 0, startLoc + Call("xIndex", <<diffs, index1>>))
           \o pdiffs[y + 1][2]
           \o substringFrom(text, startLoc + Call("xIndex", <<diffs, index1>>)),
         startLoc)
  ELSE IF pdiffs[y + 1][1] = DIFF_DELETE
  THEN applyMods(pdiffs, diffs, y + 1, index1,
         substring(text, 0, startLoc + Call("xIndex", <<diffs, index1>>))
           \o substringFrom(text, startLoc +
                Call("xIndex", <<diffs, index1 + Len(pdiffs[y + 1][2])>>)),
         startLoc)
  ELSE applyMods(pdiffs, diffs, y + 1, index1 + Len(pdiffs[y + 1][2]), text,
                 startLoc)

\* "Imperfect match": diffs is the script from text1 to text2.
applyImperfect(patch, text, delta, text1, startLoc, diffs) ==
  IF Len(text1) > maxBits /\
     Call("levenshtein", <<diffs>>) * ScoreDen > delThreshNum * Len(text1)
  THEN [text |-> text, delta |-> delta, result |-> FALSE]
  ELSE [text |-> Call("applyMods",
                      <<patch.diffs, Call("cleanupSemanticLossless", <<diffs>>),
                        0, 0, text, startLoc>>),
        delta |-> delta, result |-> TRUE]

\* "Found a match": text2 is the text found at startLoc.
applyFound(patch, text, delta, text1, startLoc, text2, ticks) ==
  IF text1 = text2
  THEN [text |-> substring(text, 0, startLoc) \o diff_text2(patch.diffs)
                   \o substringFrom(text, startLoc + Len(text1)),
        delta |-> delta, result |-> TRUE]
  ELSE applyImperfect(patch, text, delta, text1, startLoc,
         Call("main", <<text1, text2, FALSE, ticks>>).diffs)

\* applyPatch with a found hunk leaving delta as it was.
applyPatch_noDrift(patch, text, delta, text1, expectedLoc, loc, ticks) ==
  IF loc.startLoc = -1
  THEN [text |-> text, delta |-> delta - (patch.length2 - patch.length1),
        result |-> FALSE]
  ELSE applyFound(patch, text, delta, text1, loc.startLoc,
         IF loc.endLoc = -1
         THEN substring(text, loc.startLoc, loc.startLoc + Len(text1))
         ELSE substring(text, loc.startLoc, loc.endLoc + maxBits),
         ticks)

\* applyPatch with a failed hunk emptying the text.
applyPatch_clobber(patch, text, delta, text1, expectedLoc, loc, ticks) ==
  [text |-> IF loc.startLoc = -1 THEN <<>> ELSE text, delta |-> delta,
   result |-> loc.startLoc # -1]

\* The body of the for loop of apply after the match: loc is [startLoc,
\* endLoc].  Returns [text, delta, result].
applyPatch(patch, text, delta, text1, expectedLoc, loc, ticks) ==
  IF loc.startLoc = -1
  THEN [text |-> text, delta |-> delta - (patch.length2 - patch.length1),
        result |-> FALSE]
  ELSE applyFound(patch, text, loc.startLoc - expectedLoc, text1, loc.startLoc,
         IF loc.endLoc = -1
         THEN substring(text, loc.startLoc, loc.startLoc + Len(text1))
         ELSE substring(text, loc.startLoc, loc.endLoc + maxBits),
         ticks)

applyMatched(patch, text, delta, text1, expectedLoc, loc, ticks) ==
  IF ~loc.ok THEN loc
  ELSE Return(applyPatch(patch, text, delta, text1, expectedLoc, loc.val, ticks))

\* One iteration of the for loop of apply on a hunk whose start1 and start2
\* are numbers; ticks is the clock of the call of Diff.main, if any.
applyHunk(patch, text, delta, ticks) ==
  applyMatched(patch, text, delta, diff_text1(patch.diffs),
    patch.start2[1] + delta,
    Call("applyLocate",
         <<text, diff_text1(patch.diffs), patch.start2[1] + delta>>),
    ticks)

(***************************************************************************)
(* Method calls.  Every call of one method by another goes through Call, *)
(* which selects the method by name and hands it the argument list.       *)
(***************************************************************************)
Call(fn, args) ==
  CASE fn = "commonPrefixLoop" -> commonPrefixLoop(args[1], args[2], args[3], args[4], args[5], args[6])
    [] fn = "commonPrefix" -> commonPrefix(args[1], args[2])
    [] fn = "commonSuffixLoop" -> commonSuffixLoop(args[1], args[2], args[3], args[4], args[5], args[6])
    [] fn = "commonSuffix" -> commonSuffix(args[1], args[2])
    [] fn = "commonOverlapLoop" -> commonOverlapLoop(args[1], args[2], args[3], args[4], args[5])
    [] fn = "commonOverlap" -> commonOverlap(args[1], args[2])
    [] fn = "cleanupMergeRun" -> cleanupMergeRun(args[1])
    [] fn = "cleanupMergePass1" -> cleanupMergePass1(args[1])
    [] fn = "cleanupMergePass2" -> cleanupMergePass2(args[1], args[2], args[3])
    [] fn = "cleanupMerge" -> cleanupMerge(args[1])
    [] fn = "halfMatchILoop" -> halfMatchILoop(args[1], args[2], args[3], args[4], args[5], args[6])
    [] fn = "halfMatchI" -> halfMatchI(args[1], args[2], args[3])
    [] fn = "halfMatch" -> halfMatch(args[1], args[2])
    [] fn = "snakeForward" -> snakeForward(args[1], args[2], args[3], args[4])
    [] fn = "snakeReverse" -> snakeReverse(args[1], args[2], args[3], args[4])
    [] fn = "bisectMaxD" -> bisectMaxD(args[1], args[2])
    [] fn = "bisectFront" -> bisectFront(args[1], args[2], args[3], args[4], args[5])
    [] fn = "bisectReverse" -> bisectReverse(args[1], args[2], args[3], args[4], args[5])
    [] fn = "bisectLoop" -> bisectLoop(args[1], args[2], args[3], args[4], args[5])
    [] fn = "bisectInitV" -> bisectInitV(args[1], args[2])
    [] fn = "bisectSplit" -> bisectSplit(args[1], args[2], args[3], args[4], args[5])
    [] fn = "bisect" -> bisect(args[1], args[2], args[3])
    [] fn = "cleanupSemanticScore" -> cleanupSemanticScore(args[1], args[2])
    [] fn = "losslessShift" -> losslessShift(args[1], args[2], args[3], args[4])
    [] fn = "cleanupSemanticLosslessLoop" -> cleanupSemanticLosslessLoop(args[1], args[2])
    [] fn = "cleanupSemanticLossless" -> cleanupSemanticLossless(args[1])
    [] fn = "cleanupSemanticLoop1" -> cleanupSemanticLoop1(args[1])
    [] fn = "cleanupSemanticLoop2" -> cleanupSemanticLoop2(args[1], args[2])
    [] fn = "cleanupSemantic" -> cleanupSemantic(args[1])
    [] fn = "linesToCharsMunge" -> linesToCharsMunge(args[1], args[2], args[3])
    [] fn = "linesToChars" -> linesToChars(args[1], args[2])
    [] fn = "charsToLinesText" -> charsToLinesText(args[1], args[2])
    [] fn = "charsToLines" -> charsToLines(args[1], args[2])
    [] fn = "lineModeLoop" -> lineModeLoop(args[1])
    [] fn = "lineMode" -> lineMode(args[1], args[2], args[3])
    [] fn = "compute" -> compute(args[1], args[2], args[3], args[4])
    [] fn = "main" -> main(args[1], args[2], args[3], args[4])
    [] fn = "encodeURI" -> encodeURI(args[1])
    [] fn = "decodeURI" -> decodeURI(args[1])
    [] fn = "parseInt" -> parseInt(args[1])
    [] fn = "toDeltaToken" -> toDeltaToken(args[1])
    [] fn = "toDeltaLoop" -> toDeltaLoop(args[1], args[2], args[3])
    [] fn = "toDeltaJoin" -> toDeltaJoin(args[1])
    [] fn = "toDelta" -> toDelta(args[1])
    [] fn = "fromDeltaNumber" -> fromDeltaNumber(args[1], args[2], args[3], args[4])
    [] fn = "fromDeltaInsert" -> fromDeltaInsert(args[1], args[2])
    [] fn = "fromDeltaToken" -> fromDeltaToken(args[1], args[2], args[3])
    [] fn = "fromDeltaLoop" -> fromDeltaLoop(args[1], args[2], args[3], args[4])
    [] fn = "fromDelta" -> fromDelta(args[1], args[2])
    [] fn = "toStringLoop" -> toStringLoop(args[1], args[2], args[3])
    [] fn = "toStringReplace" -> toStringReplace(args[1])
    [] fn = "PatchObj_toString" -> PatchObj_toString(args[1])
    [] fn = "toTextLoop" -> toTextLoop(args[1], args[2], args[3])
    [] fn = "toText" -> toText(args[1])
    [] fn = "fromTextBody" -> fromTextBody(args[1], args[2], args[3])
    [] fn = "fromTextPush" -> fromTextPush(args[1], args[2], args[3])
    [] fn = "fromTextLoop" -> fromTextLoop(args[1], args[2], args[3])
    [] fn = "fromText" -> fromText(args[1])
    [] fn = "cleanupEfficiencyLoop" -> cleanupEfficiencyLoop(args[1])
    [] fn = "cleanupEfficiencyMerge" -> cleanupEfficiencyMerge(args[1])
    [] fn = "cleanupEfficiency" -> cleanupEfficiency(args[1])
    [] fn = "xIndexLoop" -> xIndexLoop(args[1], args[2], args[3], args[4], args[5])
    [] fn = "xIndex" -> xIndex(args[1], args[2])
    [] fn = "levenshteinLoop" -> levenshteinLoop(args[1], args[2], args[3], args[4], args[5])
    [] fn = "levenshtein" -> levenshtein(args[1])
    [] fn = "alphabetLoop" -> alphabetLoop(args[1], args[2], args[3])
    [] fn = "alphabet" -> alphabet(args[1])
    [] fn = "bitapLevels" -> bitapLevels(args[1], args[2])
    [] fn = "bitap" -> bitap(args[1], args[2], args[3])
    [] fn = "match_main" -> match_main(args[1], args[2], args[3])
    [] fn = "addContextLoop" -> addContextLoop(args[1], args[2], args[3], args[4])
    [] fn = "addContext" -> addContext(args[1], args[2])
    [] fn = "makeLoop" -> makeLoop(args[1], args[2], args[3])
    [] fn = "makePatches" -> makePatches(args[1], args[2])
    [] fn = "makeCleanup" -> makeCleanup(args[1])
    [] fn = "make" -> make(args[1], args[2], args[3])
    [] fn = "deepCopyLoop" -> deepCopyLoop(args[1], args[2], args[3], args[4])
    [] fn = "deepCopy" -> deepCopy(args[1], args[2])
    [] fn = "addPaddingBump" -> addPaddingBump(args[1], args[2], args[3])
    [] fn = "addPadding" -> addPadding(args[1], args[2])
    [] fn = "splitMaxLoop" -> splitMaxLoop(args[1], args[2], args[3])
    [] fn = "splitMax" -> splitMax(args[1], args[2])
    [] fn = "applySetup" -> applySetup(args[1], args[2])
    [] fn = "applyLocate" -> applyLocate(args[1], args[2], args[3])
    [] fn = "applyMods" -> applyMods(args[1], args[2], args[3], args[4], args[5], args[6])
    [] fn = "applyHunk" -> applyHunk(args[1], args[2], args[3], args[4])
    [] fn = "makeRest" -> makeRest(args[1], args[2])
    [] fn = "diff_main" -> diff_main(args[1], args[2], args[3], args[4])
    [] fn = "splitMaxPass" -> splitMaxPass(args[1])

(***************************************************************************)
(* Bounds of the model.                                                    *)
(***************************************************************************)
MaxTextLen == 4
MaxTicks == 2
MaxTuples == 4
MaxTupleLen == 1
MaxDeltaTuples == 2
MaxDeltaLen == 2
MaxHunks == 2
MaxHunkTuples == 1
MaxHunkTextLen == 1
MaxStart == 0
MaxLength == 2
MaxApplyLen == 2
MaxMatchLen == 3
MaxSourceLen == 2
MaxLines == 3
MaxIndexTuples == 3
MaxIndexLen == 2
MaxContextText == 4
MaxMakeLen == 5
MaxMakeDst == 4
MonsterLen == 7
MaxSplitTuples == 2
MaxPasses == 32
MaxCleanTuples == 4
MaxDriftLen == 1
MaxContextLength == 2
MaxTokens == 2
MaxPatternLen == 2
MaxLocOut == 4
MaxInputLen == 2

Alphabet == {97, 98}
Strings(n) == UNION {[1..k -> Alphabet] : k \in 0..n}
Rep(ch, n) == [i \in 1..n |-> ch]
Operations == {DIFF_DELETE, DIFF_INSERT, DIFF_EQUAL}
\* Scripts of at most n tuples, each with a non-empty text of at most m
\* characters.
Scripts(n, m) ==
  UNION {[1..k -> Operations \X (Strings(m) \ {<<>>})] : k \in 0..n}

\* Two texts over 100 characters each, sharing three blocks of 33
\* characters (less than half of either text, so halfMatch finds nothing):
\*   LongText1 = "c" x..x "d" y..y "c" z..z "\n" "valueOf"
\*   LongText2 = "d" x..x "c" y..y "d" z..z "\n" "a"
\* They differ in their last line; the last line of LongText1 has no
\* terminating newline.
LongText1 ==
  <<99>> \o Rep(120, 33) \o <<100>> \o Rep(121, 33) \o <<99>> \o Rep(122, 33)
    \o <<10>> \o Str_valueOf
LongText2 ==
  <<100>> \o Rep(120, 33) \o <<99>> \o Rep(121, 33) \o <<100>> \o Rep(122, 33)
    \o <<10>> \o <<97>>

DefaultConfig ==
  /\ editCost = 4
  /\ threshNum = 5
  /\ distance = 1000
  /\ maxBits = 32
  /\ delThreshNum = 5
  /\ margin = 4

(***************************************************************************)
(* Specification SpecDiff: one call of Diff.main.                          *)
(***************************************************************************)
InitDiff ==
  /\ DefaultConfig
  /\ timeout \in {0, 1}
  /\ pc = "start"
  /\ \/ /\ srcText \in Strings(MaxTextLen)
        /\ dstText \in Strings(MaxTextLen)
        /\ useLines \in BOOLEAN
     \/ /\ srcText = LongText1
        /\ dstText = LongText2
        /\ useLines = TRUE
  /\ clock \in IF timeout <= 0 THEN {NoDeadline} ELSE (0..MaxTicks) \cup {NoDeadline}
  /\ clockLeft = clock
  /\ inScript = <<>>
  /\ script = <<>>
  /\ deltaText = <<>>
  /\ thrown = ""
  /\ IdlePatch
  /\ IdleCall

CallMain ==
  /\ pc = "start"
  /\ LET r == Call("main", <<srcText, dstText, useLines, clock>>)
     IN  /\ script' = r.diffs
         /\ clockLeft' = r.ticks
  /\ pc' = "main"
  /\ UNCHANGED <<srcText, dstText, useLines, clock, inScript, deltaText, thrown,
                 config, callVars, patchVars>>

NextDiff == CallMain

vars == <<config, diffVars, patchVars, callVars>>

SpecDiff == InitDiff /\ [][NextDiff]_vars

\* The number of inserted plus deleted characters of a script.
RECURSIVE EditCount(_)
EditCount(diffs) ==
  IF diffs = <<>> THEN 0
  ELSE (IF Head(diffs)[1] # DIFF_EQUAL THEN Len(Head(diffs)[2]) ELSE 0)
         + EditCount(Tail(diffs))

\* The length of a longest common subsequence; every script from s to t
\* keeps a common subsequence, so it has at least
\* Len(s) + Len(t) - 2 * Lcs(s, t) edit characters.
RECURSIVE Lcs(_, _)
Lcs(s, t) ==
  IF s = <<>> \/ t = <<>> THEN 0
  ELSE IF Head(s) = Head(t) THEN 1 + Lcs(Tail(s), Tail(t))
  ELSE Max(Lcs(Tail(s), t), Lcs(s, Tail(t)))

HasOp(diffs, op) == \E i \in 1..Len(diffs) : diffs[i][1] = op

\* C1: the script returned by Diff.main reconstructs both inputs:
\* Diff.text1(script) = text1 and Diff.text2(script) = text2, for either
\* value of checklines.
C1_ScriptFidelity ==
  pc = "main" => diff_text1(script) = srcText /\ diff_text2(script) = dstText

\* C3: when the deadline expires during Diff.main (also when it is already
\* past at entry) the returned script still reconstructs text1 and text2.
C3_ExpiredDeadlineFidelity ==
  (pc = "main" /\ clock # NoDeadline /\ clockLeft = 0)
    => (diff_text1(script) = srcText /\ diff_text2(script) = dstText)

\* C4: with timeout <= 0 (no deadline, no halfMatch) and checklines false,
\* the script of Diff.main is minimal: its inserted plus deleted characters
\* number Len(text1) + Len(text2) - 2 * Lcs(text1, text2), which no script
\* from text1 to text2 can undercut.
C4_Minimal ==
  (pc = "main" /\ timeout <= 0 /\ clock = NoDeadline /\ ~useLines)
    => EditCount(script) = Len(srcText) + Len(dstText) - 2 * Lcs(srcText, dstText)

\* Witness of C4: a call without deadline and without checklines returned
\* a script that deletes, keeps and inserts.
C4_Witness ==
  /\ pc = "main" /\ timeout <= 0 /\ clock = NoDeadline /\ ~useLines
  /\ HasOp(script, DIFF_DELETE) /\ HasOp(script, DIFF_INSERT)
  /\ HasOp(script, DIFF_EQUAL)
  /\ Len(script) >= 4

(***************************************************************************)
(* Specification SpecMerge: one call of Diff.cleanupMerge on a script.     *)
(***************************************************************************)
InitMerge ==
  /\ DefaultConfig
  /\ timeout = 1
  /\ pc = "start"
  /\ srcText = <<>>
  /\ dstText = <<>>
  /\ useLines = FALSE
  /\ clock = NoDeadline
  /\ clockLeft = NoDeadline
  /\ inScript \in Scripts(MaxTuples, MaxTupleLen)
  /\ script = inScript
  /\ deltaText = <<>>
  /\ thrown = ""
  /\ IdlePatch
  /\ IdleCall

CallCleanupMerge ==
  /\ pc = "start"
  /\ script' = Call("cleanupMerge", <<inScript>>)
  /\ pc' = "cleanupMerge"
  /\ UNCHANGED <<srcText, dstText, useLines, clock, clockLeft, inScript,
                 deltaText, thrown, config, callVars, patchVars>>

NextMerge == CallCleanupMerge

SpecMerge == InitMerge /\ [][NextMerge]_vars

\* C2: after cleanupMerge no two adjacent tuples share the same op and no
\* tuple has empty text.
C2_CanonicalForm ==
  pc = "cleanupMerge" =>
    \A i \in 1..Len(script) :
      /\ script[i][2] # <<>>
      /\ (i > 1 => script[i][1] # script[i - 1][1])

(***************************************************************************)
(* Specification SpecDelta: Diff.toDelta on a script, then Diff.fromDelta  *)
(* on the delta and the script's source text.  The texts of the tuples     *)
(* are drawn from a, space, %, e-acute, and the two halves of a surrogate  *)
(* pair.                                                                   *)
(***************************************************************************)
DeltaAlphabet == {97, 32, 37, 233, 55357, 56832}
DeltaStrings(n) == UNION {[1..k -> DeltaAlphabet] : k \in 0..n}
DeltaScripts(n, m) == UNION {[1..k -> Operations \X DeltaStrings(m)] : k \in 0..n}

InitDelta ==
  /\ DefaultConfig
  /\ timeout = 1
  /\ pc = "start"
  /\ srcText = <<>>
  /\ dstText = <<>>
  /\ useLines = FALSE
  /\ clock = NoDeadline
  /\ clockLeft = NoDeadline
  /\ inScript \in DeltaScripts(MaxDeltaTuples, MaxDeltaLen)
  /\ script = <<>>
  /\ deltaText = <<>>
  /\ thrown = ""
  /\ IdlePatch
  /\ IdleCall

CallToDelta ==
  /\ pc = "start"
  /\ LET r == Call("toDelta", <<inScript>>)
     IN  /\ pc' = IF r.ok THEN "toDelta" ELSE "threw"
         /\ deltaText' = r.val
         /\ thrown' = r.err
  /\ UNCHANGED <<srcText, dstText, useLines, clock, clockLeft, inScript, script,
                 config, callVars, patchVars>>

CallFromDelta ==
  /\ pc = "toDelta"
  /\ LET r == Call("fromDelta", <<diff_text1(inScript), deltaText>>)
     IN  /\ pc' = IF r.ok THEN "fromDelta" ELSE "threw"
         /\ script' = r.val
         /\ thrown' = r.err
  /\ UNCHANGED <<srcText, dstText, useLines, clock, clockLeft, inScript, deltaText,
                 config, callVars, patchVars>>

NextDelta == CallToDelta \/ CallFromDelta

SpecDelta == InitDelta /\ [][NextDelta]_vars

\* C5: for any script diffs, fromDelta(text1(diffs), toDelta(diffs)) returns
\* a sequence of tuples equal to diffs: neither call throws and the script
\* returned is the script given.
C5_DeltaRoundTrip ==
  /\ pc # "threw"
  /\ pc = "fromDelta" => script = inScript

(***************************************************************************)
(* Specification SpecPatchText: Patch.toText on a hunk list, then          *)
(* Patch.fromText on the text.  The hunks are initialized (start1 and      *)
(* start2 are numbers); the texts of their tuples are drawn from a, space, *)
(* % and one half of a surrogate pair.                                     *)
(***************************************************************************)
PatchAlphabet == {97, 32, 37, 55357}
PatchStrings(n) == UNION {[1..k -> PatchAlphabet] : k \in 0..n}
PatchScripts(n, m) == UNION {[1..k -> Operations \X PatchStrings(m)] : k \in 0..n}
\* Hunks whose two sides start at the same place.
Hunks ==
  {[diffs |-> d, start1 |-> Num(s), start2 |-> Num(s), length1 |-> l1,
    length2 |-> l2] :
     d \in PatchScripts(MaxHunkTuples, MaxHunkTextLen), s \in 0..MaxStart,
     l1 \in 0..MaxLength, l2 \in 0..MaxLength}
HunkLists == UNION {[1..k -> Hunks] : k \in 0..MaxHunks}

InitPatchText ==
  /\ DefaultConfig
  /\ timeout = 1
  /\ pc = "start"
  /\ srcText = <<>>
  /\ dstText = <<>>
  /\ useLines = FALSE
  /\ clock = NoDeadline
  /\ clockLeft = NoDeadline
  /\ inScript = <<>>
  /\ script = <<>>
  /\ deltaText = <<>>
  /\ thrown = ""
  /\ inPatches \in HunkLists
  /\ patchText = <<>>
  /\ outPatches = <<>>
  /\ heap = <<>>
  /\ work = <<>>
  /\ applyInput = <<>>
  /\ applyText = <<>>
  /\ applyX = 0
  /\ applyDelta = 0
  /\ results = <<>>
  /\ IdleCall

CallToText ==
  /\ pc = "start"
  /\ LET r == Call("toText", <<inPatches>>)
     IN  /\ pc' = IF r.ok THEN "toText" ELSE "threw"
         /\ patchText' = r.val
         /\ thrown' = r.err
  /\ UNCHANGED <<inPatches, outPatches, heap, work, applyInput, applyText,
                 applyX, applyDelta, results, srcText, dstText, useLines,
                 clock, clockLeft, inScript, script, deltaText, config, callVars>>

CallFromText ==
  /\ pc = "toText"
  /\ LET r == Call("fromText", <<patchText>>)
     IN  /\ pc' = IF r.ok THEN "fromText" ELSE "threw"
         /\ outPatches' = r.val
         /\ thrown' = r.err
  /\ UNCHANGED <<inPatches, patchText, heap, work, applyInput, applyText,
                 applyX, applyDelta, results, srcText, dstText, useLines,
                 clock, clockLeft, inScript, script, deltaText, config, callVars>>

NextPatchText == CallToText \/ CallFromText

SpecPatchText == InitPatchText /\ [][NextPatchText]_vars

\* C6: for any hunk list patches, fromText(toText(patches)) yields a hunk
\* list of the same length whose hunks have the same start1, start2,
\* length1, length2 and the same diff tuples: neither call throws and the
\* list returned is the list given.
C6_PatchTextRoundTrip ==
  /\ pc # "threw"
  /\ pc = "fromText" => outPatches = inPatches

(***************************************************************************)
(* Specification SpecApply: Patch.make(text1, text2) followed by one call  *)
(* of Patch.apply on the hunks built, step by step: the code before the    *)
(* for loop, one iteration of the loop per step, the code after the loop.  *)
(***************************************************************************)
\* An engine with a small Match.maxBits and Patch.margin, so that hunks of
\* short texts are split by splitMax.
SmallConfig ==
  /\ editCost = 4
  /\ threshNum = 5
  /\ distance = 1000
  /\ maxBits = 3
  /\ delThreshNum = 5
  /\ margin = 1

\* The texts apply is called on, for hunks built from text1.
ApplyTexts(text1) ==
  IF Len(text1) > MaxApplyLen THEN {text1}
  ELSE {text1} \cup Strings(MaxInputLen)

InitApply ==
  /\ timeout = 1
  /\ pc = "start"
  /\ \/ /\ DefaultConfig \/ SmallConfig
        /\ srcText \in Strings(MaxApplyLen)
        /\ dstText \in Strings(MaxApplyLen)
        /\ clock \in {0, NoDeadline}
     \/ /\ DefaultConfig
        /\ srcText = LongText1
        /\ dstText = LongText2
        /\ clock = NoDeadline
  /\ useLines = TRUE
  /\ clockLeft = clock
  /\ inScript = <<>>
  /\ script = <<>>
  /\ deltaText = <<>>
  /\ thrown = ""
  /\ IdlePatch
  /\ IdleCall

\* The clocks of the call of Diff.main inside one iteration of apply: the
\* deadline has passed at its first clock read, or it never passes.
ApplyTicks == {0, NoDeadline}

\* patches = make(text1, text2), first half: the call of Diff.main with
\* checklines true, which returned r.
MakeDiffWith(r) ==
  /\ pc = "start"
  /\ script' = r.diffs
  /\ clockLeft' = r.ticks
  /\ pc' = "makeDiff"
  /\ UNCHANGED <<srcText, dstText, useLines, clock, inScript, deltaText, thrown,
                 config, callVars, patchVars>>

\* make, second half: the cleanups and the hunks, which returned r.  The
\* caller's list is object 1 of the heap and its hunks are the objects
\* after it.
MakePatchesWith(r) ==
  /\ pc = "makeDiff"
  /\ pc' = IF r.ok THEN "make" ELSE "threw"
  /\ inPatches' = r.val
  /\ heap' = callerHeap(r.val)
  /\ thrown' = r.err
  /\ work' = 1
  /\ UNCHANGED <<patchText, outPatches, applyInput, applyText, applyX,
                 applyDelta, results, srcText, dstText, useLines, clock,
                 clockLeft, inScript, script, deltaText, config, callVars>>

\* apply(patches, text) up to the for loop; an empty list returns at once,
\* otherwise deepCopy, addPadding and splitMax returned s.
ApplyBeginWith(s) ==
  /\ pc = "make"
  /\ \E text \in ApplyTexts(srcText) :
       /\ applyInput' = text
       /\ IF Len(heap[1]) = 0
          THEN /\ pc' = "apply"
               /\ applyText' = text
               /\ UNCHANGED <<heap, work>>
          ELSE /\ pc' = "applyLoop"
               /\ heap' = s.h
               /\ work' = s.patches
               /\ applyText' = nullPaddingString \o text \o nullPaddingString
  /\ applyX' = 0
  /\ applyDelta' = 0
  /\ results' = <<>>
  /\ UNCHANGED <<inPatches, patchText, outPatches, thrown, srcText, dstText,
                 useLines, clock, clockLeft, inScript, script, deltaText,
                 config, callVars>>

\* ApplyHunkWith recording only the hunks that applied.
ApplyHunkWith_onlyTrue(r) ==
  /\ pc = "applyLoop"
  /\ applyX < Len(heap[work])
  /\ r.ok
  /\ applyText' = r.val.text
  /\ applyDelta' = r.val.delta
  /\ results' = IF r.val.result THEN arraySet(results, applyX, TRUE) ELSE results
  /\ applyX' = applyX + 1
  /\ UNCHANGED <<inPatches, patchText, outPatches, heap, work, applyInput,
                 srcText, dstText, useLines, clock, clockLeft, inScript,
                 script, deltaText, config, callVars, pc, thrown>>

\* One iteration of the for loop of apply, on patches[x]; r is what the
\* body returned for a hunk with both starts set.
ApplyHunkWith(r) ==
  /\ pc = "applyLoop"
  /\ applyX < Len(heap[work])
  /\ IF heap[heap[work][applyX + 1]].start1 = Null
        \/ heap[heap[work][applyX + 1]].start2 = Null
     THEN UNCHANGED <<pc, applyText, applyDelta, results, thrown>>
     ELSE IF r.ok
       THEN /\ applyText' = r.val.text
            /\ applyDelta' = r.val.delta
            /\ results' = arraySet(results, applyX, r.val.result)
            /\ UNCHANGED <<pc, thrown>>
       ELSE /\ pc' = "threw"
            /\ thrown' = r.err
            /\ UNCHANGED <<applyText, applyDelta, results>>
  /\ applyX' = applyX + 1
  /\ UNCHANGED <<inPatches, patchText, outPatches, heap, work, applyInput,
                 srcText, dstText, useLines, clock, clockLeft, inScript,
                 script, deltaText, config, callVars>>

\* "Strip the padding off" and return [text, results].
ApplyEnd ==
  /\ pc = "applyLoop"
  /\ applyX >= Len(heap[work])
  /\ applyText' = substring(applyText, Len(nullPaddingString),
                            Len(applyText) - Len(nullPaddingString))
  /\ pc' = "apply"
  /\ UNCHANGED <<inPatches, patchText, outPatches, heap, work, applyInput,
                 applyX, applyDelta, results, thrown, srcText, dstText,
                 useLines, clock, clockLeft, inScript, script, deltaText,
                 config, callVars>>

\* The steps of apply(make(text1, text2), text): each calls its method
\* once and continues with what the method returned.
MakeDiff == MakeDiffWith(Call("main", <<srcText, dstText, TRUE, clock>>))

MakePatches == MakePatchesWith(Call("makeRest", <<srcText, script>>))

ApplyBegin == ApplyBeginWith(Call("applySetup", <<heap, 1>>))

ApplyHunk ==
  \E ticks \in ApplyTicks :
    ApplyHunkWith(Call("applyHunk", <<heap[heap[work][applyX + 1]], applyText,
                                     applyDelta, ticks>>))

NextApply == MakeDiff \/ MakePatches \/ ApplyBegin \/ ApplyHunk \/ ApplyEnd

SpecApply == InitApply /\ [][NextApply]_vars

\* The results array holds only true.
AllApplied == \A i \in DOMAIN results : results[i]

\* C7: for any strings text1 and text2, apply(make(text1, text2), text1)
\* returns text2 and a results array containing only true.
C7_ApplyMakeRoundTrip ==
  (pc = "apply" /\ applyInput = srcText) => (applyText = dstText /\ AllApplied)

\* The part of the heap the caller holds is as make left it.
CallerHunksUnchanged ==
  SubSeq(heap, 1, Len(inPatches) + 1) = callerHeap(inPatches)

\* C8: during and after any call of apply, whether hunks succeed or fail
\* and whether padding or splitting take place, the caller's hunk list is
\* unchanged: same number of hunks, same coordinates and lengths, same diff
\* tuples.
C8_CallerHunksUnchanged ==
  pc \in {"applyLoop", "apply"} => CallerHunksUnchanged

\* apply has returned after splitMax broke a hunk up and a hunk failed.
C8_Witness ==
  /\ pc = "apply"
  /\ Len(heap[work]) > Len(inPatches)
  /\ \E i \in DOMAIN results : ~results[i]

C10_FailedHunkLeavesText ==
  /\ [][(pc = "applyLoop" /\ applyX' = applyX + 1 /\ applyX \in DOMAIN results'
          /\ ~results'[applyX])
        => (applyText' = applyText /\ pc' = "applyLoop")]_vars
  /\ [](pc = "apply" /\ (\A i \in DOMAIN results : ~results[i])
        => applyText = applyInput)

\* apply has returned after a hunk failed and a later hunk changed the text.
C10_Witness ==
  /\ pc = "apply"
  /\ applyText # applyInput
  /\ \E i, j \in DOMAIN results : i < j /\ ~results[i] /\ results[j]

(***************************************************************************)
(* Match.bitap and Match.main on a text, a pattern and a location.  The   *)
(* location ranges from MaxLocOut places before the text to one place     *)
(* after it; main clamps it, bitap is also called directly.               *)
(***************************************************************************)
\* The Match configurations [threshold * ScoreDen, distance, maxBits]: the
\* defaults, distance 0, distance 0 with threshold 1.0, and a short
\* distance with one-character patterns only.
MatchConfigs == {<<5, 1000, 32>>, <<5, 0, 32>>, <<10, 0, 32>>, <<5, 2, 1>>}

InitMatch ==
  /\ timeout = 1
  /\ editCost = 4
  /\ delThreshNum = 5
  /\ margin = 4
  /\ \E c \in MatchConfigs :
       /\ threshNum = c[1]
       /\ distance = c[2]
       /\ maxBits = c[3]
  /\ pc = "start"
  /\ srcText = <<>>
  /\ dstText = <<>>
  /\ useLines = FALSE
  /\ clock = NoDeadline
  /\ clockLeft = NoDeadline
  /\ inScript = <<>>
  /\ script = <<>>
  /\ deltaText = <<>>
  /\ thrown = ""
  /\ IdlePatch
  /\ matchText \in Strings(MaxMatchLen)
  /\ matchPattern \in Strings(MaxPatternLen)
  /\ argLoc \in (0 - MaxLocOut)..(Len(matchText) + 1)
  /\ returned = <<>>

CallBitap ==
  /\ pc = "start"
  /\ returned' = Call("bitap", <<matchText, matchPattern, argLoc>>)
  /\ pc' = "bitap"
  /\ UNCHANGED <<matchText, matchPattern, argLoc, srcText, dstText, useLines,
                 clock, clockLeft, inScript, script, deltaText, thrown, config,
                 patchVars>>

CallMatchMain ==
  /\ pc = "start"
  /\ returned' = Call("match_main", <<matchText, matchPattern, argLoc>>)
  /\ pc' = "matchMain"
  /\ UNCHANGED <<matchText, matchPattern, argLoc, srcText, dstText, useLines,
                 clock, clockLeft, inScript, script, deltaText, thrown, config,
                 patchVars>>

NextMatch == CallBitap \/ CallMatchMain

SpecMatch == InitMatch /\ [][NextMatch]_vars

\* The threshold of the configuration, as a score.
Threshold == <<threshNum, ScoreDen>>

\* The pattern occurs exactly at index i of the text, and an exact match
\* there scores at most the threshold.
NearOccurrence(i) ==
  /\ OccursAt(matchText, matchPattern, i)
  /\ scoreLeq(bitapScore(0, i, argLoc, matchPattern), Threshold)

\* C11 as stated: whenever a pattern of at most maxBits characters occurs
\* exactly somewhere in the text, bitap returns, for any loc, an index at
\* which the text holds the pattern exactly and whose score is at most the
\* threshold; it never returns -1.
C11_ExactOccurrenceFound ==
  (/\ pc = "bitap"
   /\ Len(matchPattern) <= maxBits
   /\ \E i \in 0..Len(matchText) : OccursAt(matchText, matchPattern, i))
  => /\ returned.ok
     /\ returned.val # -1
     /\ NearOccurrence(returned.val)

\* C11 amended: for a location within the text and a non-empty pattern of
\* at most maxBits characters, whenever the pattern occurs exactly at an
\* index where an exact match scores at most the threshold, bitap returns
\* an index, never -1, that lies within the text no farther from loc than
\* the threshold allows; the text there need not hold the pattern exactly.
C11_NearOccurrenceFound ==
  (/\ pc = "bitap"
   /\ matchPattern # <<>>
   /\ Len(matchPattern) <= maxBits
   /\ argLoc \in 0..Len(matchText)
   /\ \E i \in 0..Len(matchText) : NearOccurrence(i))
  => /\ returned.ok
     /\ returned.val \in 0..(Len(matchText) - 1)
     /\ scoreLeq(bitapScore(0, returned.val, argLoc, matchPattern), Threshold)

\* bitap has returned an index away from loc for a pattern that occurs
\* near loc but not at loc.
C11_Witness ==
  /\ pc = "bitap"
  /\ matchPattern # <<>>
  /\ Len(matchPattern) <= maxBits
  /\ argLoc \in 0..Len(matchText)
  /\ \E i \in 0..Len(matchText) : NearOccurrence(i)
  /\ ~OccursAt(matchText, matchPattern, argLoc)
  /\ returned.ok
  /\ returned.val \notin {-1, argLoc}

\* What C12 says Match.main returns for strings text and pattern.
MainShortcuts(text, pattern, loc) ==
  IF text = pattern THEN Return(0)
  ELSE IF Len(text) = 0 THEN Return(-1)
  ELSE IF OccursAt(text, pattern, loc) THEN Return(loc)
  ELSE bitap(text, pattern, loc)

\* C12: Match.main clamps loc to [0, |text|], returns 0 when text equals
\* pattern, otherwise -1 when text is empty, otherwise loc when the text
\* holds the pattern at loc, otherwise what bitap returns for the clamped
\* loc.
C12_MainShortcuts ==
  pc = "matchMain"
  => returned = MainShortcuts(matchText, matchPattern,
                              Max(0, Min(argLoc, Len(matchText))))

\* Match.main has clamped a loc outside the text and found the pattern at
\* the clamped loc.
C12_Witness ==
  /\ pc = "matchMain"
  /\ argLoc \notin 0..Len(matchText)
  /\ matchText # matchPattern
  /\ matchPattern # <<>>
  /\ returned = Return(Max(0, Min(argLoc, Len(matchText))))

\* C13: bitap fails with "Pattern too long" exactly when the pattern is
\* longer than maxBits, and for a pattern of at most maxBits characters it
\* never raises.
C13_PatternTooLongOnly ==
  pc = "bitap"
  => /\ returned.ok <=> Len(matchPattern) <= maxBits
     /\ ~returned.ok => returned.err = "Pattern too long for this browser."

\* Every index other than loc scores 1.0, whatever the number of errors.
OtherIndicesScoreOne ==
  \A x \in (0 - MaxLocOut)..(Len(matchText) + 1) :
    \A e \in 0..Len(matchPattern) :
      x # argLoc => bitapScore(e, x, argLoc, matchPattern) = <<1, 1>>

DeltaTokens ==
  {<<61, 49>>, <<61, 50>>, <<45, 49>>, <<61, 48>>, <<61, 45, 49>>, <<61, 120>>,
   <<61>>, <<61, 49, 120>>, <<61, 32, 49>>, <<43, 97>>, <<43>>, <<43, 37>>,
   <<43, 37, 52, 49>>, <<43, 37, 69, 57>>, <<>>, <<97>>}
TokenLists == UNION {[1..k -> DeltaTokens] : k \in 1..MaxTokens}
SourceTexts == {Rep(97, k) : k \in 0..MaxSourceLen}

InitFromDelta ==
  /\ DefaultConfig
  /\ timeout = 1
  /\ pc = "start"
  /\ srcText \in SourceTexts
  /\ dstText = <<>>
  /\ useLines = FALSE
  /\ clock = NoDeadline
  /\ clockLeft = NoDeadline
  /\ inScript = <<>>
  /\ script = <<>>
  /\ \E tokens \in TokenLists : deltaText = join(tokens, <<9>>)
  /\ thrown = ""
  /\ IdlePatch
  /\ IdleCall

DecodeDelta ==
  /\ pc = "start"
  /\ returned' = Call("fromDelta", <<srcText, deltaText>>)
  /\ pc' = "fromDelta"
  /\ UNCHANGED <<matchText, matchPattern, argLoc, srcText, dstText, useLines,
                 clock, clockLeft, inScript, script, deltaText, thrown, config,
                 patchVars>>

NextFromDelta == DecodeDelta

SpecFromDelta == InitFromDelta /\ [][NextFromDelta]_vars

\* The characters of s are decimal digits.
RECURSIVE AllDigits(_)
AllDigits(s) == s = <<>> \/ (Head(s) \in 48..57 /\ AllDigits(Tail(s)))

\* N is numeric: a decimal numeral with an optional sign, after optional
\* white space.
IsNumeric(N) ==
  /\ afterSign(skipWhiteSpace(N)) # <<>>
  /\ AllDigits(afterSign(skipWhiteSpace(N)))

\* A token =N or -N whose N is non-numeric or negative.
BadNumberToken(token) ==
  /\ token # <<>>
  /\ Head(token) \in {45, 61}
  /\ \/ ~IsNumeric(Tail(token))
     \/ Head(skipWhiteSpace(Tail(token))) = 45

\* Every % of s is followed by two hexadecimal digits.
RECURSIVE WellFormedEscapes(_)
WellFormedEscapes(s) ==
  IF s = <<>> THEN TRUE
  ELSE IF Head(s) # 37 THEN WellFormedEscapes(Tail(s))
  ELSE /\ Len(s) >= 3
       /\ isHex(s[2])
       /\ isHex(s[3])
       /\ WellFormedEscapes(SubSeq(s, 4, Len(s)))

\* A token +TEXT with a malformed percent escape.
BadInsertToken(token) ==
  token # <<>> /\ Head(token) = 43 /\ ~WellFormedEscapes(Tail(token))

\* The count of a token: N of =N and -N, 0 of any other token.
TokenCount(token) ==
  IF token # <<>> /\ Head(token) \in {45, 61} /\ ~parseInt(Tail(token)).nan
  THEN parseInt(Tail(token)).val
  ELSE 0

\* The sum of the = and - counts of a delta's tokens.
RECURSIVE DeltaCount(_)
DeltaCount(tokens) ==
  IF tokens = <<>> THEN 0 ELSE TokenCount(Head(tokens)) + DeltaCount(Tail(tokens))

\* Every token is one that toDelta writes, or blank.
WrittenToken(token) ==
  \/ token = <<>>
  \/ Head(token) \in {45, 61} /\ Tail(token) # <<>> /\ AllDigits(Tail(token))
  \/ Head(token) = 43 /\ decodeURI(Tail(token)).ok

\* C15: fromDelta raises for every delta whose = and - counts do not sum
\* to the length of text1, whether they fall short of it or exceed it, and
\* returns a script only when the sum equals that length; when nothing
\* else is wrong with the delta the error raised is the one about the
\* delta length.
C15_DeltaLength ==
  (pc = "fromDelta" /\ DeltaCount(split(deltaText, 9)) # Len(srcText))
  => /\ ~returned.ok
     /\ (\A i \in DOMAIN split(deltaText, 9) : WrittenToken(split(deltaText, 9)[i]))
        => returned.err = "Delta length does not equal source text length"

\* fromDelta has raised the delta length error for a delta of well-formed
\* tokens whose counts exceed the length of a non-empty text1.
C15_Witness ==
  /\ pc = "fromDelta"
  /\ srcText # <<>>
  /\ DeltaCount(split(deltaText, 9)) > Len(srcText)
  /\ \A i \in DOMAIN split(deltaText, 9) : WrittenToken(split(deltaText, 9)[i])
  /\ ~returned.ok
  /\ returned.err = "Delta length does not equal source text length"

\* C16: fromDelta fails for every delta holding a token =N or -N whose N
\* is non-numeric or negative, or a token + with a malformed percent
\* escape; no such delta is decoded into a script.
C16_MalformedTokenFails ==
  (/\ pc = "fromDelta"
   /\ \E i \in DOMAIN split(deltaText, 9) :
        \/ BadNumberToken(split(deltaText, 9)[i])
        \/ BadInsertToken(split(deltaText, 9)[i]))
  => ~returned.ok

(***************************************************************************)
(* Specification SpecFromText: Patch.fromText on a patch text that need    *)
(* not come from toText: up to MaxLines lines joined by line feeds.        *)
(***************************************************************************)
\* The lines: the headers "@@ -1 +1 @@" and "@@ -1,2 +1,0 @@", the
\* malformed headers "@@ -1 +1 @", "@@ -a +1 @@" and "@", the body lines
\* "-a", "+b" and " c", the blank line, and the lines "x", "+%" and "x%".
PatchLines ==
  {<<64, 64, 32, 45, 49, 32, 43, 49, 32, 64, 64>>,
   <<64, 64, 32, 45, 49, 44, 50, 32, 43, 49, 44, 48, 32, 64, 64>>,
   <<64, 64, 32, 45, 49, 32, 43, 49, 32, 64>>,
   <<64, 64, 32, 45, 97, 32, 43, 49, 32, 64, 64>>,
   <<64>>, <<45, 97>>, <<43, 98>>, <<32, 99>>, <<>>, <<120>>, <<43, 37>>,
   <<120, 37>>}
LineLists == UNION {[1..k -> PatchLines] : k \in 1..MaxLines}

InitFromText ==
  /\ DefaultConfig
  /\ timeout = 1
  /\ pc = "start"
  /\ srcText = <<>>
  /\ dstText = <<>>
  /\ useLines = FALSE
  /\ clock = NoDeadline
  /\ clockLeft = NoDeadline
  /\ inScript = <<>>
  /\ script = <<>>
  /\ deltaText = <<>>
  /\ thrown = ""
  /\ inPatches = <<>>
  /\ \E lines \in LineLists : patchText = join(lines, <<10>>)
  /\ outPatches = <<>>
  /\ heap = <<>>
  /\ work = <<>>
  /\ applyInput = <<>>
  /\ applyText = <<>>
  /\ applyX = 0
  /\ applyDelta = 0
  /\ results = <<>>
  /\ IdleCall

ParsePatchText ==
  /\ pc = "start"
  /\ returned' = Call("fromText", <<patchText>>)
  /\ pc' = "fromText"
  /\ UNCHANGED <<matchText, matchPattern, argLoc, srcText, dstText, useLines,
                 clock, clockLeft, inScript, script, deltaText, thrown, config,
                 patchVars>>

NextFromText == ParsePatchText

SpecFromText == InitFromText /\ [][NextFromText]_vars

\* s is (\d+),?(\d*): digits, then nothing, or a comma and digits or none.
IsCoords(s) ==
  /\ Len(split(s, 44)) \in {1, 2}
  /\ split(s, 44)[1] # <<>>
  /\ \A i \in DOMAIN split(s, 44) : AllDigits(split(s, 44)[i])

\* The header shape: "@@ -" coords " +" coords " @@".
HeaderShape(line) ==
  /\ Len(split(line, 32)) = 4
  /\ split(line, 32)[1] = <<64, 64>>
  /\ split(line, 32)[4] = <<64, 64>>
  /\ split(line, 32)[2] # <<>>
  /\ Head(split(line, 32)[2]) = 45
  /\ IsCoords(Tail(split(line, 32)[2]))
  /\ split(line, 32)[3] # <<>>
  /\ Head(split(line, 32)[3]) = 43
  /\ IsCoords(Tail(split(line, 32)[3]))

\* Every line in the place of a header has the header shape and every
\* body line is blank or starts with +, - or a space; the first line and
\* every body line starting with @ are in the place of a header.
RECURSIVE LinesWellFormed(_, _)
LinesWellFormed(lines, inBody) ==
  IF lines = <<>> THEN TRUE
  ELSE IF ~inBody \/ (Head(lines) # <<>> /\ Head(Head(lines)) = 64)
    THEN HeaderShape(Head(lines)) /\ LinesWellFormed(Tail(lines), TRUE)
  ELSE /\ Head(lines) = <<>> \/ Head(Head(lines)) \in {43, 45, 32}
       /\ LinesWellFormed(Tail(lines), TRUE)

\* The number of body lines that are not blank of every hunk, in order:
\* a line starting with @ begins a hunk.
RECURSIVE BodyCounts(_, _)
BodyCounts(lines, counts) ==
  IF lines = <<>> THEN counts
  ELSE IF Head(lines) = <<>> THEN BodyCounts(Tail(lines), counts)
  ELSE IF Head(Head(lines)) = 64 THEN BodyCounts(Tail(lines), Append(counts, 0))
  ELSE BodyCounts(Tail(lines),
         [counts EXCEPT ![Len(counts)] = counts[Len(counts)] + 1])

\* Every percent escape of the lines can be decoded.
EscapesDecodable(lines) ==
  \A i \in DOMAIN lines : decodeURI(substringFrom(lines[i], 1)).ok

NullableTexts == {JsNull, JsUndefined} \cup Strings(1)

InitNull ==
  /\ DefaultConfig
  /\ timeout = 1
  /\ pc = "start"
  /\ srcText \in NullableTexts
  /\ dstText \in NullableTexts
  /\ useLines \in BOOLEAN
  /\ clock = NoDeadline
  /\ clockLeft = NoDeadline
  /\ inScript = <<>>
  /\ script = <<>>
  /\ deltaText = <<>>
  /\ thrown = ""
  /\ IdlePatch
  /\ matchText \in NullableTexts
  /\ matchPattern \in NullableTexts
  /\ argLoc \in 0..1
  /\ returned = <<>>

CallDiffMain ==
  /\ pc = "start"
  /\ returned' = Call("diff_main", <<srcText, dstText, useLines, clock>>)
  /\ pc' = "diffMain"
  /\ UNCHANGED <<matchText, matchPattern, argLoc, srcText, dstText, useLines,
                 clock, clockLeft, inScript, script, deltaText, thrown, config,
                 patchVars>>

NextNull == CallDiffMain \/ CallMatchMain

SpecNull == InitNull /\ [][NextNull]_vars

\* C18: Diff.main and Match.main raise the null input error whenever a
\* text argument is null or absent.
C18_NullInput ==
  /\ (pc = "diffMain" /\ {srcText, dstText} \cap {JsNull, JsUndefined} # {})
     => (~returned.ok /\ returned.err = "Null input. (main)")
  /\ (pc = "matchMain" /\ {matchText, matchPattern} \cap {JsNull, JsUndefined} # {})
     => (~returned.ok /\ returned.err = "Null input. (main)")

(***************************************************************************)
(* Specification SpecIndex: Diff.xIndex on a script and an offset into     *)
(* the script's source text.  xIndex reads only the operations and the     *)
(* lengths of the tuples: their texts are runs of one character.           *)
(***************************************************************************)
IndexTuples == {<<op, Rep(97, k)>> : op \in Operations, k \in 0..MaxIndexLen}
IndexScripts == UNION {[1..k -> IndexTuples] : k \in 0..MaxIndexTuples}

InitIndex ==
  /\ DefaultConfig
  /\ timeout = 1
  /\ pc = "start"
  /\ srcText = <<>>
  /\ dstText = <<>>
  /\ useLines = FALSE
  /\ clock = NoDeadline
  /\ clockLeft = NoDeadline
  /\ inScript \in IndexScripts
  /\ script = <<>>
  /\ deltaText = <<>>
  /\ thrown = ""
  /\ IdlePatch
  /\ matchText = <<>>
  /\ matchPattern = <<>>
  /\ argLoc \in 0..Len(diff_text1(inScript))
  /\ returned = <<>>

CallXIndex ==
  /\ pc = "start"
  /\ returned' = Return(Call("xIndex", <<inScript, argLoc>>))
  /\ pc' = "xIndex"
  /\ UNCHANGED <<matchText, matchPattern, argLoc, srcText, dstText, useLines,
                 clock, clockLeft, inScript, script, deltaText, thrown, config,
                 patchVars>>

NextIndex == CallXIndex

SpecIndex == InitIndex /\ [][NextIndex]_vars

\* The source and the destination characters of the first k tuples.
Chars1(diffs, k) == Len(diff_text1(SubSeq(diffs, 1, k)))
Chars2(diffs, k) == Len(diff_text2(SubSeq(diffs, 1, k)))

\* Source offset loc falls inside tuple k: a deletion or an equality.
Inside(diffs, k, loc) ==
  /\ diffs[k][1] # DIFF_INSERT
  /\ Chars1(diffs, k - 1) <= loc
  /\ loc < Chars1(diffs, k)

\* C19: xIndex(script, loc) returns the destination offset corresponding
\* to source offset loc: for a loc inside an equality, as far into the
\* equality's destination characters as loc is into its source
\* characters; for a loc inside a deletion, the destination offset at
\* which the deletion began; for the end of the source, the end of the
\* destination.
C19_CorrespondingOffset ==
  pc = "xIndex"
  => /\ \A k \in DOMAIN inScript :
          Inside(inScript, k, argLoc)
          => returned.val =
               Chars2(inScript, k - 1)
               + (IF inScript[k][1] = DIFF_EQUAL
                  THEN argLoc - Chars1(inScript, k - 1) ELSE 0)
     /\ argLoc = Len(diff_text1(inScript))
        => returned.val = Len(diff_text2(inScript))

\* xIndex has returned the offset at which a deletion began, for a loc
\* past the first character of the deletion, after an insertion.
C19_Witness ==
  /\ pc = "xIndex"
  /\ \E k \in DOMAIN inScript :
       /\ Inside(inScript, k, argLoc)
       /\ inScript[k][1] = DIFF_DELETE
       /\ argLoc > Chars1(inScript, k - 1)
       /\ returned.val = Chars2(inScript, k - 1)
       /\ returned.val > 0

(***************************************************************************)
(* Specification SpecLevenshtein: Diff.main on two texts, then             *)
(* Diff.levenshtein on the script returned.                                *)
(***************************************************************************)
InitLevenshtein ==
  /\ DefaultConfig
  /\ timeout \in {0, 1}
  /\ pc = "start"
  /\ srcText \in Strings(MaxTextLen)
  /\ dstText \in Strings(MaxTextLen)
  /\ useLines \in BOOLEAN
  /\ clock \in IF timeout <= 0 THEN {NoDeadline} ELSE {0, NoDeadline}
  /\ clockLeft = clock
  /\ inScript = <<>>
  /\ script = <<>>
  /\ deltaText = <<>>
  /\ thrown = ""
  /\ IdlePatch
  /\ IdleCall

CallLevenshtein ==
  /\ pc = "main"
  /\ returned' = Return(Call("levenshtein", <<script>>))
  /\ pc' = "levenshtein"
  /\ UNCHANGED <<matchText, matchPattern, argLoc, srcText, dstText, useLines,
                 clock, clockLeft, inScript, script, deltaText, thrown, config,
                 patchVars>>

NextLevenshtein == CallMain \/ CallLevenshtein

SpecLevenshtein == InitLevenshtein /\ [][NextLevenshtein]_vars

\* C20: for the script of any two strings, levenshtein is at least 0, is
\* 0 exactly when the strings are equal, and is at most the length of the
\* longer string.
C20_LevenshteinBounds ==
  pc = "levenshtein"
  => /\ returned.val >= 0
     /\ returned.val = 0 <=> srcText = dstText
     /\ returned.val <= Max(Len(srcText), Len(dstText))

(***************************************************************************)
(* Specification SpecContext: Patch.addContext on a hunk and a text, in    *)
(* two steps: the code up to the end of the while loop, and the code after *)
(* it.  The hunk deletes length1 characters and inserts one; its start1    *)
(* and start2 are unset or a place in the text.                            *)
(***************************************************************************)
ContextStarts(text) ==
  {<<Null, Null>>} \cup
  UNION {{<<Num(s), Num(s)>>, <<Null, Num(s)>>, <<Num(s), Null>>} :
           s \in 0..Len(text)}

ContextHunks(text) ==
  {[diffs |-> (IF l = 0 THEN <<>> ELSE <<<<DIFF_DELETE, Rep(97, l)>>>>)
                \o <<<<DIFF_INSERT, <<98>>>>>>,
    start1 |-> st[1], start2 |-> st[2], length1 |-> l, length2 |-> 1] :
     l \in 0..MaxContextLength, st \in ContextStarts(text)}

InitContext ==
  /\ timeout = 1
  /\ DefaultConfig \/ SmallConfig
  /\ pc = "start"
  /\ srcText \in Strings(MaxContextText)
  /\ dstText = <<>>
  /\ useLines = FALSE
  /\ clock = NoDeadline
  /\ clockLeft = NoDeadline
  /\ inScript = <<>>
  /\ script = <<>>
  /\ deltaText = <<>>
  /\ thrown = ""
  /\ \E patch \in ContextHunks(srcText) : inPatches = <<patch>>
  /\ patchText = <<>>
  /\ outPatches = inPatches
  /\ heap = <<>>
  /\ work = <<>>
  /\ applyInput = <<>>
  /\ applyText = <<>>
  /\ applyX = 0
  /\ applyDelta = 0
  /\ results = <<>>
  /\ IdleCall

\* The pattern of addContext for a padding.
contextPattern(patch, text, padding) ==
  substring(text, patch.start2[1] - padding,
            patch.start2[1] + patch.length1 + padding)

\* addContext up to the end of its while loop.
ContextLoop ==
  /\ pc = "start"
  /\ IF Len(srcText) = 0
     THEN pc' = "addContext" /\ UNCHANGED <<thrown, returned>>
     ELSE IF inPatches[1].start1 = Null \/ inPatches[1].start2 = Null
     THEN /\ pc' = "threw"
          /\ thrown' = "patch not initialized"
          /\ UNCHANGED returned
     ELSE /\ pc' = "contextLoop"
          /\ returned' =
               Return(Call("addContextLoop",
                           <<inPatches[1], srcText,
                             contextPattern(inPatches[1], srcText, 0), 0>>))
          /\ UNCHANGED thrown
  /\ UNCHANGED <<matchText, matchPattern, argLoc, srcText, dstText, useLines,
                 clock, clockLeft, inScript, script, deltaText, config,
                 patchVars>>

\* addContext after its while loop.
ContextPad ==
  /\ pc = "contextLoop"
  /\ outPatches' = <<addContextPad(inPatches[1], srcText, returned.val + margin)>>
  /\ pc' = "addContext"
  /\ UNCHANGED <<inPatches, patchText, heap, work, applyInput, applyText,
                 applyX, applyDelta, results, srcText, dstText, useLines,
                 clock, clockLeft, inScript, script, deltaText, thrown, config,
                 callVars>>

NextContext == ContextLoop \/ ContextPad

SpecContext == InitContext /\ [][NextContext]_vars

\* C21: addContext raises the "patch not initialized" error whenever the
\* hunk's start1 or start2 is unset, whatever the text, the empty text
\* included, and leaves the hunk as it was.
C21_NotInitialized ==
  (/\ pc # "start"
   /\ inPatches[1].start1 = Null \/ inPatches[1].start2 = Null)
  => /\ pc = "threw"
     /\ thrown = "patch not initialized"
     /\ outPatches = inPatches

\* C22 as stated: at the end of the while loop of addContext the pattern
\* has at most maxBits - 2 * margin characters.
C22_PatternCap ==
  pc = "contextLoop"
  => Len(contextPattern(inPatches[1], srcText, returned.val)) + 2 * margin
       <= maxBits

\* C22 amended: the while loop grows a pattern only while it has fewer than
\* maxBits - 2 * margin characters, by at most 2 * margin characters a
\* time: at the end of the loop a pattern that was grown has fewer than
\* maxBits characters, and a pattern that was not is the length1
\* characters at start2.
C22_GrownPatternBelowMaxBits ==
  pc = "contextLoop"
  => /\ returned.val > 0
        => Len(contextPattern(inPatches[1], srcText, returned.val)) < maxBits
     /\ returned.val = 0
        => contextPattern(inPatches[1], srcText, returned.val)
             = substring(srcText, inPatches[1].start2[1],
                         inPatches[1].start2[1] + inPatches[1].length1)
     /\ returned.val > 0
        => Len(contextPattern(inPatches[1], srcText, returned.val - margin))
             < maxBits - 2 * margin

\* The while loop has stopped at the cap with a pattern that is not unique
\* in the text and has more than maxBits - 2 * margin characters.
C22_Witness ==
  /\ pc = "contextLoop"
  /\ returned.val > 0
  /\ Len(contextPattern(inPatches[1], srcText, returned.val)) + 2 * margin > maxBits
  /\ indexOf(srcText, contextPattern(inPatches[1], srcText, returned.val), 0)
       # lastIndexOf(srcText, contextPattern(inPatches[1], srcText, returned.val),
                     Len(srcText))

(***************************************************************************)
(* Specification SpecMake: Patch.make(text1, text2), then the start of     *)
(* Patch.apply on the hunks built, one call a step: deepCopy and           *)
(* addPadding, then splitMax.  text1 has up to MaxMakeLen characters and    *)
(* text2 up to MaxMakeDst.                                                 *)
(***************************************************************************)
InitMake ==
  /\ timeout = 1
  /\ DefaultConfig \/ SmallConfig
  /\ pc = "start"
  /\ srcText \in Strings(MaxMakeLen)
  /\ dstText \in Strings(MaxMakeDst)
  /\ useLines = TRUE
  /\ clock = NoDeadline
  /\ clockLeft = NoDeadline
  /\ inScript = <<>>
  /\ script = <<>>
  /\ deltaText = <<>>
  /\ thrown = ""
  /\ IdlePatch
  /\ IdleCall

MakeHunksWith(r) ==
  /\ pc = "start"
  /\ pc' = IF r.ok THEN "make" ELSE "threw"
  /\ inPatches' = r.val
  /\ heap' = callerHeap(r.val)
  /\ thrown' = r.err
  /\ work' = 1
  /\ UNCHANGED <<patchText, outPatches, applyInput, applyText, applyX,
                 applyDelta, results, srcText, dstText, useLines, clock,
                 clockLeft, inScript, script, deltaText, config, callVars>>

PadHunksWith(c) ==
  /\ pc = "make"
  /\ inPatches # <<>>
  /\ heap' = Call("addPadding", <<c.h, c.patches>>)
  /\ work' = c.patches
  /\ pc' = "addPadding"
  /\ UNCHANGED <<inPatches, patchText, outPatches, applyInput, applyText,
                 applyX, applyDelta, results, srcText, dstText, useLines,
                 clock, clockLeft, inScript, script, deltaText, thrown, config,
                 callVars>>

SplitHunksWith(h) ==
  /\ pc = "addPadding"
  /\ heap' = h
  /\ pc' = "splitMax"
  /\ UNCHANGED <<inPatches, patchText, outPatches, work, applyInput,
                 applyText, applyX, applyDelta, results, srcText, dstText,
                 useLines, clock, clockLeft, inScript, script, deltaText,
                 thrown, config, callVars>>

MakeHunks == MakeHunksWith(Call("make", <<srcText, dstText, clock>>))
PadHunks == PadHunksWith(Call("deepCopy", <<heap, 1>>))
SplitHunks == SplitHunksWith(Call("splitMax", <<heap, work>>))

NextMake == MakeHunks \/ PadHunks \/ SplitHunks

SpecMake == InitMake /\ [][NextMake]_vars

\* length1 and length2 of hunk p are the numbers of characters of the
\* source and of the destination text of its diffs.
LengthsAgree(p) ==
  /\ p.length1 = Len(diff_text1(p.diffs))
  /\ p.length2 = Len(diff_text2(p.diffs))

\* C23: every hunk returned by make (addContext has processed each), and
\* every hunk of apply's list after addPadding and after splitMax, has
\* length1 equal to the length of Diff.text1 of its diffs and length2 equal
\* to the length of Diff.text2 of its diffs.
C23_LengthsAgree ==
  /\ pc \in {"make", "addPadding", "splitMax"}
     => \A i \in DOMAIN inPatches : LengthsAgree(inPatches[i])
  /\ pc \in {"addPadding", "splitMax"}
     => \A i \in DOMAIN hunksOf(heap, work) : LengthsAgree(hunksOf(heap, work)[i])

\* splitMax has broken up a hunk of two or more built by make, padded by
\* addPadding.
C23_Witness ==
  /\ pc = "splitMax"
  /\ Len(inPatches) >= 2
  /\ Len(heap[work]) > Len(inPatches)
  /\ \A i \in DOMAIN hunksOf(heap, work) : LengthsAgree(hunksOf(heap, work)[i])

editStart(p) ==
  p.start2[1] + (IF p.diffs[1][1] = DIFF_EQUAL THEN Len(p.diffs[1][2]) ELSE 0)
editEnd(p) ==
  p.start2[1] + p.length2
  - (IF p.diffs[Len(p.diffs)][1] = DIFF_EQUAL
     THEN Len(p.diffs[Len(p.diffs)][2]) ELSE 0)

Interior(p, i) ==
  /\ p.diffs[i][1] = DIFF_EQUAL
  /\ \E j \in 1..(i - 1) : p.diffs[j][1] # DIFF_EQUAL
  /\ \E j \in (i + 1)..Len(p.diffs) : p.diffs[j][1] # DIFF_EQUAL

\* C25 as stated: no hunk of make holds, between two edits, an equality of
\* 2 * margin characters or more.
C25_LongEqualityCloses ==
  pc = "make"
  => \A k \in DOMAIN inPatches : \A i \in DOMAIN inPatches[k].diffs :
       Interior(inPatches[k], i) => Len(inPatches[k].diffs[i][2]) < 2 * margin

\* C25 amended: an equality of more than 2 * margin characters met while a
\* hunk is open closes the hunk, and one of exactly 2 * margin characters
\* does so only as the last tuple of the script: no hunk of make holds,
\* between two edits, an equality of more than 2 * margin characters.
C25_LongerEqualityCloses ==
  pc = "make"
  => \A k \in DOMAIN inPatches : \A i \in DOMAIN inPatches[k].diffs :
       Interior(inPatches[k], i) => Len(inPatches[k].diffs[i][2]) <= 2 * margin

\* make has returned a hunk holding an equality of exactly 2 * margin
\* characters between two edits.
C25_Witness ==
  /\ pc = "make"
  /\ \E k \in DOMAIN inPatches : \E i \in DOMAIN inPatches[k].diffs :
       Interior(inPatches[k], i) /\ Len(inPatches[k].diffs[i][2]) = 2 * margin

(***************************************************************************)
(* Patch.apply on a hunk that deletes a long run of text.  Under the      *)
(* small configuration splitMax leaves a delete of MonsterLen characters  *)
(* in one hunk whose text1 is longer than maxBits; apply is called on     *)
(* texts whose middle differs from the run and which start up to         *)
(* MaxDriftLen characters late.                                          *)
(***************************************************************************)
\* The strings of exactly n characters.
StringsOfLen(n) == [1..n -> Alphabet]

\* The texts apply is called on: the ends of the deleted run around a
\* middle of the run's length or two shorter, after a prefix of up to
\* MaxDriftLen characters.
DriftTexts ==
  {p \o Rep(97, 2) \o m \o Rep(97, 2) :
     p \in Strings(MaxDriftLen),
     m \in StringsOfLen(MonsterLen - 4) \cup StringsOfLen(MonsterLen - 2)}

InitDrift ==
  /\ timeout = 1
  /\ pc = "start"
  /\ SmallConfig
  /\ srcText = Rep(97, MonsterLen)
  /\ dstText \in Strings(MaxDriftLen)
  /\ clock = NoDeadline
  /\ useLines = TRUE
  /\ clockLeft = clock
  /\ inScript = <<>>
  /\ script = <<>>
  /\ deltaText = <<>>
  /\ thrown = ""
  /\ IdlePatch
  /\ IdleCall

\* apply(patches, text) up to the for loop, on a list that is not empty:
\* deepCopy, addPadding and splitMax returned s.
DriftBeginWith(s) ==
  /\ pc = "make"
  /\ Len(heap[1]) # 0
  /\ \E text \in DriftTexts :
       /\ applyInput' = text
       /\ applyText' = nullPaddingString \o text \o nullPaddingString
  /\ pc' = "applyLoop"
  /\ heap' = s.h
  /\ work' = s.patches
  /\ applyX' = 0
  /\ applyDelta' = 0
  /\ results' = <<>>
  /\ UNCHANGED <<inPatches, patchText, outPatches, thrown, srcText, dstText,
                 useLines, clock, clockLeft, inScript, script, deltaText,
                 config, callVars>>

DriftBegin == DriftBeginWith(Call("applySetup", <<heap, 1>>))

NextDrift == MakeDiff \/ MakePatches \/ DriftBegin \/ ApplyHunk \/ ApplyEnd

SpecDrift == InitDrift /\ [][NextDrift]_vars

\* The hunk the for loop of apply is at, its expected location and the
\* startLoc the match gives it.
driftHunk == heap[heap[work][applyX + 1]]
driftExpected == driftHunk.start2[1] + applyDelta
driftStart ==
  applyLocate(applyText, diff_text1(driftHunk.diffs), driftExpected).val.startLoc

\* C27 as stated: an iteration of apply that records its hunk as false
\* subtracts length2 - length1 of the hunk from delta.
C27_FalseSubtracts ==
  [][(pc = "applyLoop" /\ applyX' = applyX + 1 /\ applyX \in DOMAIN results'
        /\ ~results'[applyX])
      => applyDelta' = applyDelta - (driftHunk.length2 - driftHunk.length1)]_vars

\* C27 amended: an iteration of apply that finds no match for its hunk
\* records false and subtracts length2 - length1 from delta; one that finds
\* a match sets delta to startLoc - expectedLoc, whether the hunk is then
\* recorded as true or, its content being too bad, as false.
C27_MatchSetsDrift ==
  [][(pc = "applyLoop" /\ applyX' = applyX + 1 /\ applyX \in DOMAIN results')
      => IF driftStart = -1
         THEN /\ ~results'[applyX]
              /\ applyDelta' = applyDelta - (driftHunk.length2 - driftHunk.length1)
         ELSE applyDelta' = driftStart - driftExpected]_vars

\* The first hunk was found and recorded as false, and delta is the
\* distance from its expected location to the place it was found at, which
\* is not length1 - length2 of the hunk.
C27_Witness ==
  /\ pc = "applyLoop"
  /\ applyX = 1
  /\ 0 \in DOMAIN results
  /\ ~results[0]
  /\ applyDelta # heap[heap[work][1]].length1 - heap[heap[work][1]].length2
  /\ applyDelta =
       applyLocate(nullPaddingString \o applyInput \o nullPaddingString,
                   diff_text1(heap[heap[work][1]].diffs),
                   heap[heap[work][1]].start2[1]).val.startLoc
       - heap[heap[work][1]].start2[1]

(***************************************************************************)
(* Patch.splitMax, one pass of its loops at a time, on a list of one hunk *)
(* of up to MaxSplitTuples tuples between two optional short hunks.  The   *)
(* list is object 1 of the heap and is changed in place; applyX is x,     *)
(* returned holds bigpatch, start1, start2 and precontext, and applyDelta *)
(* counts the passes of the while loop, up to MaxPasses.                  *)
(***************************************************************************)
\* maxBits is not more than twice the margin.
TightConfig ==
  /\ editCost = 4
  /\ threshNum = 5
  /\ distance = 1000
  /\ maxBits = 2
  /\ delThreshNum = 5
  /\ margin = 1

\* The lengths of the texts of the tuples.
SplitRuns == {1, 2, MonsterLen}

SplitScripts ==
  UNION {[1..k -> Operations \X {Rep(97, n) : n \in SplitRuns}] :
           k \in 1..MaxSplitTuples}

\* The hunk of script d at the start of the text.
splitHunk(d) ==
  [diffs |-> d, start1 |-> Num(0), start2 |-> Num(0),
   length1 |-> Len(diff_text1(d)), length2 |-> Len(diff_text2(d))]

\* A hunk that is not longer than maxBits.
shortHunk == splitHunk(<<<<DIFF_INSERT, <<98>>>>>>)

InitSplit ==
  /\ timeout = 1
  /\ SmallConfig \/ TightConfig
  /\ pc = "start"
  /\ srcText = <<>>
  /\ dstText = <<>>
  /\ useLines = TRUE
  /\ clock = NoDeadline
  /\ clockLeft = clock
  /\ inScript = <<>>
  /\ script = <<>>
  /\ deltaText = <<>>
  /\ thrown = ""
  /\ \E d \in SplitScripts : \E pre, post \in {<<>>, <<shortHunk>>} :
       inPatches = pre \o <<splitHunk(d)>> \o post
  /\ patchText = <<>>
  /\ outPatches = <<>>
  /\ heap = callerHeap(inPatches)
  /\ work = 1
  /\ applyInput = <<>>
  /\ applyText = <<>>
  /\ applyX = 0
  /\ applyDelta = 0
  /\ results = <<>>
  /\ IdleCall

\* The call of splitMax(patches).
SplitBegin ==
  /\ pc = "start"
  /\ pc' = "splitFor"
  /\ UNCHANGED <<config, srcText, dstText, useLines, clock, clockLeft, inScript, script, deltaText, thrown, patchVars, callVars>>

\* One iteration of the for loop up to the while loop, or the end of the
\* for loop.
SplitFor ==
  /\ pc = "splitFor"
  /\ IF applyX >= Len(heap[work])
     THEN /\ pc' = "splitMax"
          /\ UNCHANGED <<heap, applyX, returned>>
     ELSE IF heap[heap[work][applyX + 1]].length1 <= maxBits
     THEN /\ applyX' = applyX + 1
          /\ UNCHANGED <<pc, heap, returned>>
     ELSE /\ pc' = "splitWhile"
          /\ heap' = [heap EXCEPT ![work] = splice(@, applyX, 1, <<>>)]
          /\ applyX' = applyX - 1
          /\ returned' = [big |-> heap[work][applyX + 1],
                          start1 |-> orZero(heap[heap[work][applyX + 1]].start1),
                          start2 |-> orZero(heap[heap[work][applyX + 1]].start2),
                          precontext |-> <<>>]
  /\ UNCHANGED <<config, srcText, dstText, useLines, clock, clockLeft, inScript, script, deltaText, thrown, inPatches, patchText, outPatches, work,
                 applyInput, applyText, applyDelta, results, matchText,
                 matchPattern, argLoc>>

\* One pass of the while loop over bigpatch.diffs, which left st.
SplitPassWith(st) ==
  /\ pc = "splitWhile"
  /\ Len(heap[returned.big].diffs) # 0
  /\ applyDelta < MaxPasses
  /\ heap' = st.h
  /\ applyX' = st.x
  /\ returned' = [big |-> st.big, start1 |-> st.start1, start2 |-> st.start2,
                  precontext |-> st.precontext]
  /\ applyDelta' = applyDelta + 1
  /\ UNCHANGED <<config, diffVars, inPatches, patchText, outPatches, work,
                 applyInput, applyText, results, matchText, matchPattern,
                 argLoc>>

SplitPass ==
  SplitPassWith(Call("splitMaxPass",
    <<[h |-> heap, patches |-> work, x |-> applyX, big |-> returned.big,
       start1 |-> returned.start1, start2 |-> returned.start2,
       precontext |-> returned.precontext]>>))

\* The end of the while loop: bigpatch.diffs is empty.
SplitNext ==
  /\ pc = "splitWhile"
  /\ Len(heap[returned.big].diffs) = 0
  /\ pc' = "splitFor"
  /\ applyX' = applyX + 1
  /\ UNCHANGED <<config, srcText, dstText, useLines, clock, clockLeft, inScript, script, deltaText, thrown, inPatches, patchText, outPatches, heap,
                 work, applyInput, applyText, applyDelta, results, callVars>>

NextSplit == SplitBegin \/ SplitFor \/ SplitPass \/ SplitNext

SpecSplit == InitSplit /\ [][NextSplit]_vars

\* Hunk p holds a delete of more than 2 * maxBits characters.
monsterDelete(p) ==
  \E i \in DOMAIN p.diffs :
    p.diffs[i][1] = DIFF_DELETE /\ Len(p.diffs[i][2]) > 2 * maxBits

\* Object k of the heap is a hunk of the list splitMax was called on.
givenHunk(k) == k <= Len(inPatches) + 1

\* The place in the given list that object k of the heap stands for: its
\* own, or that of the hunk it was cut from.
splitOrigin(k) == IF givenHunk(k) THEN k - 1 ELSE returned.big - 1

\* C26: when splitMax returns, every hunk of the list has length1 of at
\* most maxBits unless it holds a monster delete; the hunks that were not
\* longer than maxBits are the objects they were, unchanged and in the
\* order they had, and a hunk that was longer is no longer in the list:
\* hunks cut from it stand in its place.
C26_SplitMax ==
  pc = "splitMax"
  => /\ \A k \in DOMAIN heap[work] :
          \/ heap[heap[work][k]].length1 <= maxBits
          \/ monsterDelete(heap[heap[work][k]])
     /\ \A i \in DOMAIN inPatches :
          IF inPatches[i].length1 <= maxBits
          THEN /\ heap[i + 1] = inPatches[i]
               /\ \E k \in DOMAIN heap[work] : heap[work][k] = i + 1
          ELSE \A k \in DOMAIN heap[work] : heap[work][k] # i + 1
     /\ \A j, k \in DOMAIN heap[work] :
          j < k => /\ heap[work][j] # heap[work][k]
                   /\ splitOrigin(heap[work][j]) <= splitOrigin(heap[work][k])

\* splitMax has returned after cutting the hunk between two short hunks
\* into three or more, none of them longer than maxBits.
C26_Witness ==
  /\ pc = "splitMax"
  /\ Len(inPatches) = 3
  /\ inPatches[2].length1 > maxBits
  /\ Len(heap[work]) > 4
  /\ heap[work][1] = 2
  /\ heap[work][Len(heap[work])] = 4
  /\ \A k \in DOMAIN heap[work] : heap[heap[work][k]].length1 <= maxBits

\* The number of tuples plus the number of characters of a script.
RECURSIVE splitSize(_)
splitSize(d) ==
  IF d = <<>> THEN 0 ELSE 1 + Len(d[1][2]) + splitSize(Tail(d))

\* C30: each pass of the while loop of splitMax over an oversized hunk
\* consumes at least one character or tuple of that hunk's diffs.
C30_PassConsumes ==
  [][(pc = "splitWhile" /\ applyDelta' = applyDelta + 1)
      => splitSize(heap'[returned.big].diffs)
           < splitSize(heap[returned.big].diffs)]_vars

(***************************************************************************)
(* The cleanup passes of Diff, each called once on a script of up to      *)
(* MaxCleanTuples tuples with the texts a, b and ab.                      *)
(***************************************************************************)
CleanTexts == {<<97>>, <<98>>, <<97, 98>>}

CleanScripts == UNION {[1..k -> Operations \X CleanTexts] : k \in 0..MaxCleanTuples}

InitCleanup ==
  /\ DefaultConfig
  /\ timeout = 1
  /\ pc = "start"
  /\ srcText = <<>>
  /\ dstText = <<>>
  /\ useLines = FALSE
  /\ clock = NoDeadline
  /\ clockLeft = NoDeadline
  /\ inScript \in CleanScripts
  /\ script = inScript
  /\ deltaText = <<>>
  /\ thrown = ""
  /\ IdlePatch
  /\ IdleCall

\* A pass called on the script, which it left as diffs.
CleanupReturns(name, diffs) ==
  /\ pc = "start"
  /\ script' = diffs
  /\ pc' = name
  /\ UNCHANGED <<srcText, dstText, useLines, clock, clockLeft, inScript,
                 deltaText, thrown, config, callVars, patchVars>>

CleanupMerge == CleanupReturns("cleanupMerge", Call("cleanupMerge", <<inScript>>))

CleanupSemantic ==
  CleanupReturns("cleanupSemantic", Call("cleanupSemantic", <<inScript>>))

CleanupSemanticLossless ==
  CleanupReturns("cleanupSemanticLossless",
                 Call("cleanupSemanticLossless", <<inScript>>))

CleanupEfficiency ==
  CleanupReturns("cleanupEfficiency", Call("cleanupEfficiency", <<inScript>>))

NextCleanup ==
  CleanupMerge \/ CleanupSemantic \/ CleanupSemanticLossless \/ CleanupEfficiency

SpecCleanup == InitCleanup /\ [][NextCleanup]_vars

\* C28: after cleanupMerge, cleanupSemantic, cleanupSemanticLossless or
\* cleanupEfficiency, Diff.text1 and Diff.text2 of the script are what they
\* were before the pass.
C28_CleanupKeepsTexts ==
  pc # "start"
  => /\ diff_text1(script) = diff_text1(inScript)
     /\ diff_text2(script) = diff_text2(inScript)

\* cleanupEfficiency has turned an equality between edits into a delete
\* and an insert.
C28_Witness ==
  /\ pc = "cleanupEfficiency"
  /\ HasOp(inScript, DIFF_EQUAL)
  /\ ~HasOp(script, DIFF_EQUAL)
  /\ Len(diff_text1(script)) > 2
  /\ diff_text1(script) = diff_text1(inScript)
  /\ diff_text2(script) = diff_text2(inScript)

(***************************************************************************)
(* Patch.apply on the hunks of Patch.make or of Patch.fromText.  The     *)
(* hunks of make delete a run of MonsterLen characters; those of fromText *)
(* are parsed from the text of such a hunk and of one whose header gives  *)
(* a length1 that is not the length of its body.                         *)
(***************************************************************************)
\* The hunk lists whose text fromText is called on.
ParsedHunks ==
  {<<splitHunk(<<<<DIFF_DELETE, Rep(97, MonsterLen)>>>>)>>,
   <<[splitHunk(<<<<DIFF_DELETE, Rep(97, MonsterLen)>>, <<DIFF_INSERT, <<98>>>>>>)
        EXCEPT !.length1 = 1]>>}

InitAny ==
  /\ timeout = 1
  /\ pc = "start"
  /\ SmallConfig
  /\ srcText = Rep(97, MonsterLen)
  /\ clock = NoDeadline
  /\ useLines = TRUE
  /\ clockLeft = clock
  /\ inScript = <<>>
  /\ script = <<>>
  /\ deltaText = <<>>
  /\ thrown = ""
  /\ inPatches = <<>>
  /\ \/ /\ dstText \in Strings(MaxDriftLen)
        /\ patchText = <<>>
     \/ /\ dstText = <<>>
        /\ \E patches \in ParsedHunks : patchText = toText(patches).val
  /\ outPatches = <<>>
  /\ heap = <<>>
  /\ work = <<>>
  /\ applyInput = <<>>
  /\ applyText = <<>>
  /\ applyX = 0
  /\ applyDelta = 0
  /\ results = <<>>
  /\ IdleCall

\* patches = make(text1, text2), first half.
MakeAny == patchText = <<>> /\ MakeDiff

\* patches = fromText(textline), which returned r.
ParsePatchesWith(r) ==
  /\ pc = "start"
  /\ patchText # <<>>
  /\ pc' = IF r.ok THEN "make" ELSE "threw"
  /\ inPatches' = IF r.ok THEN r.val ELSE <<>>
  /\ heap' = IF r.ok THEN callerHeap(r.val) ELSE heap
  /\ thrown' = r.err
  /\ work' = 1
  /\ UNCHANGED <<patchText, outPatches, applyInput, applyText, applyX,
                 applyDelta, results, srcText, dstText, useLines, clock,
                 clockLeft, inScript, script, deltaText, config, callVars>>

ParsePatches == ParsePatchesWith(Call("fromText", <<patchText>>))

NextAny ==
  MakeAny \/ MakePatches \/ ParsePatches \/ DriftBegin \/ ApplyHunk \/ ApplyEnd

SpecAny == InitAny /\ [][NextAny]_vars

\* The patterns one iteration of apply hands to Match.main.
applyPatterns(text, text1, expectedLoc) ==
  IF Len(text1) > maxBits
  THEN {substring(text1, 0, maxBits)} \cup
       (IF Call("match_main",
                <<text, substring(text1, 0, maxBits), expectedLoc>>).val # -1
        THEN {substringFrom(text1, Len(text1) - maxBits)} ELSE {})
  ELSE {text1}

\* C29: apply on the hunks of make or of fromText never fails with
\* "Pattern too long": every pattern an iteration of apply hands to
\* Match.main, after addPadding and splitMax, has at most maxBits
\* characters.
C29_PatternFits ==
  /\ pc # "threw"
  /\ thrown = ""
  /\ (pc = "applyLoop" /\ applyX < Len(heap[work]))
     => \A p \in applyPatterns(applyText, diff_text1(driftHunk.diffs),
                               driftExpected) : Len(p) <= maxBits

\* apply has returned after it applied a hunk of fromText that splitMax
\* left whole, its length1 being small, and whose text1 is longer than
\* maxBits.
C29_Witness ==
  /\ pc = "apply"
  /\ patchText # <<>>
  /\ \E k \in DOMAIN heap[work] :
       /\ heap[heap[work][k]].length1 <= maxBits
       /\ Len(diff_text1(heap[heap[work][k]].diffs)) > maxBits
       /\ (k - 1) \in DOMAIN results
       /\ results[k - 1]

====
